---- MODULE Spec2Model ----
(***************************************************************************)
(* Fox_ETL: the orchestration loops (schedulers/AutoAggregator*.py), the   *)
(* ingestion loop (schedulers/File_Monitor.py with loaders/import_*.py)    *)
(* and the aggregation jobs under aggregators/, modelled as state machines *)
(* over the raw and derived tables of the database.                        *)
(*                                                                         *)
(* The specifications share one module:                                    *)
(*   SpecOrch   - one ScriptOrchestrator process (recent or historical)    *)
(*   SpecIngest - the file monitor, the importers and the raw tables       *)
(*   SpecAgg    - the aggregation jobs over workstation_master_log         *)
(*   SpecConc   - two runners executing table-rebuilding scripts at once   *)
(*   SpecCalc   - the packing and yield calculations over given raw data   *)
(***************************************************************************)
EXTENDS Integers, Sequences, FiniteSets, TLC

VARIABLES
    \* ---- orchestrator (ScriptOrchestrator) ----
    orch,         \* which program runs: "recent" (AutoAggregator.py) or "historical"
    opc,          \* position of start(): "loop", "cycle", "job", "sleep", "except_sleep", "stopped", "off"
    ocat,         \* run_cycle: index of the category being run
    oidx,         \* run_cycle: index of the script inside the category
    started,      \* scripts started in the current cycle, in order
    exits,        \* outcome of every script that returned in the current cycle
    cycle_count,  \* start(): cycle_count
    prevAborted,  \* the last finished cycle returned False
    interrupted,  \* a KeyboardInterrupt was delivered
    \* ---- ingestion (File_Monitor.py, loaders/import_*_file.py) ----
    raw,          \* committed rows of each raw table: a bag, table -> row -> copies
    xls,          \* the export file of each type in the input directory (its rows) or NoFile
    xlsx,         \* the converted .xlsx of each type in the input directory or NoFile
    mpc,          \* position of monitor_for_files / process_file / the importer's main
    mtype,        \* index in FileTypes of the detection block the monitor is in
    mapped,       \* importer: mapped_data
    new_records,  \* importer: new_records
    txn,          \* importer: rows inserted by the open transaction, not committed
    landings,     \* number of export files that have landed
    rawBefore,    \* the importer's table when the running import started
    lastImport,   \* the last import: its type and how it ended ("committed", "nothing", "failed", "killed")
    lastResult,   \* what process_file returned last: "none", "True", "False"
    failedRows,   \* rows the running import had inserted when it failed
    \* ---- aggregation (aggregators/) ----
    events,       \* workstation_master_log as the aggregation jobs read it: a set of events
    today,        \* CURRENT_DATE, a day number (day % 7 = 0 is a Sunday)
    now,          \* NOW() of the last started job run; grows with every run
    pchart,       \* workstation_pchart_daily: committed rows
    packing,      \* packing_daily_summary: committed rows
    tpy,          \* daily_tpy_metrics: committed rows
    ajob,         \* the aggregation script that is running, or "idle"
    apc,          \* its position: "idle", "run", "dates"
    adates,       \* daily TPY: the dates still to process (all_dates)
    before,       \* the derived tables when the running script started
    prev,         \* the script that finished last and whether its exit status was 0
    prevQuiet,    \* raw data and date did not change from the start of the previous run to the start of this one
    quiet,        \* raw data and date did not change since the last run started
    \* ---- concurrent aggregation (aggregators/historical/testboard, packing) ----
    tblog,        \* testboard_master_log as the aggregation jobs read it: a set of events
    fixture,      \* fixture_performance_daily: committed rows
    station,      \* testboard_station_performance_daily: committed rows
    snfn,         \* snfn_aggregate_daily: committed rows
    rjob,         \* runner -> the script it is executing, or "none"
    rpc,          \* runner -> position in main: "idle", "create", "truncate", "select", "insert", "rows", "aggregate"
    rrows,        \* runner -> rows fetched by the running script
    rlast,        \* runner -> the script it finished last and how, until it starts the next
    rbefore,      \* runner -> the target table when the running script started
    overlap,      \* the script started last was started while the other runner was executing one
    srows,        \* snfn: rows still to insert, in the order fetched
    stxn,         \* snfn: rows written by the open transaction
    success_count,\* snfn: success_count
    error_count,  \* snfn: error_count
    inserted,     \* snfn: rows whose INSERT succeeded in the running script
    \* ---- yield and packing calculations (aggregators/throughput, packing) ----
    wpc,          \* which calculation comes next: "packing", "daily", "fpy", "yields", "hardcoded", "done"
    wdate,        \* the date the daily TPY script is applied to
    wpacked,      \* the rows the two packing statements compute: all_time and recent
    wdaily,       \* the rows aggregate_daily_tpy_for_date inserts for wdate
    wfpy,         \* weekly_first_pass_yield
    wyields,      \* model_specific_yields, one entry per (model, station)
    whard,        \* hardcoded_tpy, by model family
    \* ---- weekly throughput job (aggregate_tpy_all_time_weekly.py) and week identifiers ----
    kpc,          \* position of aggregate_weekly_tpy_metrics_all_time: "idle", "weeks", "done", "off"
    all_weeks,    \* the week ids the loop has still to process, in order
    weekly,       \* weekly_tpy_metrics: committed rows
    wmodel,       \* weekly_tpy_model_metrics: committed rows
    klast,        \* the week id processed last and whether its processing failed
    cpc,          \* week identifiers: which function is applied next: "id", "range", "bounds", "done", "off"
    cdate,        \* the date d
    cid,          \* get_week_id(d)
    crange,       \* get_week_date_range(get_week_id(d))
    cbounds       \* get_week_bounds(d)

orchVars == <<orch, opc, ocat, oidx, started, exits, cycle_count, prevAborted, interrupted>>

ingestVars == <<raw, xls, xlsx, mpc, mtype, mapped, new_records, txn, landings,
                rawBefore, lastImport, lastResult, failedRows>>

aggVars == <<events, today, now, pchart, packing, tpy, ajob, apc, adates,
             before, prev, prevQuiet, quiet>>

tbVars == <<tblog, fixture, station, snfn, rjob, rpc, rrows, rlast, rbefore, overlap,
            srows, stxn, success_count, error_count, inserted>>

calcVars == <<wpc, wdate, wpacked, wdaily, wfpy, wyields, whard>>

weekVars == <<kpc, all_weeks, weekly, wmodel, klast, cpc, cdate, cid, crange, cbounds>>

vars == <<orchVars, ingestVars, aggVars, tbVars, calcVars, weekVars>>

nonOrchVars == <<ingestVars, aggVars, tbVars, calcVars, weekVars>>

nonIngestVars == <<orchVars, aggVars, tbVars, calcVars, weekVars>>

nonAggVars == <<orchVars, ingestVars, tbVars, calcVars, weekVars>>

nonTbVars == <<orchVars, ingestVars, aggVars, calcVars, weekVars>>

nonCalcVars == <<orchVars, ingestVars, aggVars, tbVars, weekVars>>

nonWeekVars == <<orchVars, ingestVars, aggVars, tbVars, calcVars>>

\* ---------------------------------------------------------------- bounds
MaxCycles == 3
MaxLandings == 2
MaxRuns == 2
MaxDay == 1100

\* ------------------------------------------------------------ small helpers
Min(a, b) == IF a < b THEN a ELSE b

Range(s) == {s[i] : i \in 1..Len(s)}

\* =====================================================================
\* ORCHESTRATION LOOP
\* =====================================================================

Orchestrators == {"recent", "historical"}

\* run_cycle visits the groups in this fixed order (the recent orchestrator
\* has no throughput group: its TPY scripts close the workstation group).
MutCategoriesTpyFirst(o) ==
    IF o = "recent" THEN <<"workstation", "testboard">>
    ELSE <<"throughput", "testboard", "workstation">>

Categories(o) ==
    IF o = "recent" THEN <<"testboard", "workstation">>
    ELSE <<"testboard", "workstation", "throughput">>

\* self.script_groups
ScriptGroups(o, c) ==
    IF o = "recent" THEN
        CASE c = "testboard" ->
               <<"aggregate_all_time_dedup.py",
                 "aggregate_fixture_performance_all_time.py">>
          [] c = "workstation" ->
               <<"aggregate_packing_daily_dedup.py",
                 "aggregate_packing_weekly_all_time_dedup.py",
                 "aggregate_sort_test_all_time.py",
                 "aggregate_sort_test_weekly_dedup.py",
                 "aggregate_station_hourly_counts.py",
                 "aggregate_tpy_all_time_daily.py",
                 "aggregate_tpy_all_time_weekly.py">>
          [] OTHER -> <<>>
    ELSE
        CASE c = "testboard" ->
               <<"aggregate_station_performance_all_time.py",
                 "aggregate_fixture_performance_all_time.py",
                 "aggregate_snfn_reports_all_time.py">>
          [] c = "workstation" ->
               <<"aggregate_packing_all_time.py",
                 "aggregate_pchart_all_time.py",
                 "aggregate_station_hourly_counts_all_time.py",
                 "aggregate_sort_test_all_time.py">>
          [] c = "throughput" ->
               <<"aggregate_tpy_all_time_daily.py",
                 "aggregate_tpy_all_time_weekly.py">>
          [] OTHER -> <<>>

TpyDaily  == "aggregate_tpy_all_time_daily.py"
TpyWeekly == "aggregate_tpy_all_time_weekly.py"
TpyScripts == {TpyDaily, TpyWeekly}

\* every script of the testboard and workstation groups that is not a TPY script
NonTpyScripts(o) ==
    (Range(ScriptGroups(o, "testboard")) \cup Range(ScriptGroups(o, "workstation")))
        \ TpyScripts

\* What subprocess.run(check=True) can do: return 0, return non-zero
\* (CalledProcessError) or fail to run at all (any other Exception).
Outcomes == {"ok", "nonzero", "exception"}

\* run_script: True only when the subprocess returned 0
MutRunScriptAlwaysTrue(outcome) == TRUE

RunScript(outcome) == outcome = "ok"

\* start(): where the loop goes after run_cycle returned (True or False):
\* the result is not looked at, the loop sleeps and goes on.
MutStopOnFailure(ok) == IF ok THEN "sleep" ELSE "stopped"

AfterCycle(ok) == "sleep"

\* run_cycle: the position after the script at (c, i) returned True;
\* past the last script of the last group the cycle is over (<<0, 0>>).
NextPosition(o, c, i) ==
    IF i < Len(ScriptGroups(o, Categories(o)[c])) THEN <<c, i + 1>>
    ELSE IF c < Len(Categories(o)) THEN <<c + 1, 1>>
    ELSE <<0, 0>>

\* start(): `while True: try:` entering run_cycle
StartCycle ==
    /\ opc = "loop"
    /\ opc' = "cycle"
    /\ ocat' = 1
    /\ oidx' = 1
    /\ started' = <<>>
    /\ exits' = <<>>
    /\ UNCHANGED <<orch, cycle_count, prevAborted, interrupted>>
    /\ UNCHANGED nonOrchVars

\* run_script: subprocess.run starts the script
StartScript ==
    /\ opc = "cycle"
    /\ opc' = "job"
    /\ started' = Append(started, ScriptGroups(orch, Categories(orch)[ocat])[oidx])
    /\ UNCHANGED <<orch, ocat, oidx, exits, cycle_count, prevAborted, interrupted>>
    /\ UNCHANGED nonOrchVars

\* run_script returns; run_cycle goes on, or returns False on the first failure
ScriptReturns ==
    /\ opc = "job"
    /\ \E outcome \in Outcomes :
         /\ exits' = Append(exits, outcome)
         /\ IF RunScript(outcome)
            THEN LET p == NextPosition(orch, ocat, oidx) IN
                 IF p = <<0, 0>>
                 THEN /\ opc' = AfterCycle(TRUE)
                      /\ prevAborted' = FALSE
                      /\ UNCHANGED <<ocat, oidx>>
                 ELSE /\ opc' = "cycle"
                      /\ ocat' = p[1]
                      /\ oidx' = p[2]
                      /\ UNCHANGED prevAborted
            ELSE /\ opc' = AfterCycle(FALSE)
                 /\ prevAborted' = TRUE
                 /\ UNCHANGED <<ocat, oidx>>
    /\ UNCHANGED <<orch, started, cycle_count, interrupted>>
    /\ UNCHANGED nonOrchVars

\* start(): `except Exception` - an exception raised inside run_cycle by the
\* bookkeeping of the cycle (logging, path handling), outside run_script's try
BookkeepingError ==
    /\ opc = "cycle"
    /\ opc' = "except_sleep"
    /\ UNCHANGED <<orch, ocat, oidx, started, exits, cycle_count, prevAborted, interrupted>>
    /\ UNCHANGED nonOrchVars

\* start(): time.sleep(self.wait_time); cycle_count += 1
SleepDone ==
    /\ opc = "sleep"
    /\ opc' = "loop"
    /\ cycle_count' = Min(cycle_count + 1, MaxCycles)
    /\ UNCHANGED <<orch, ocat, oidx, started, exits, prevAborted, interrupted>>
    /\ UNCHANGED nonOrchVars

\* start(): the handler's own time.sleep(self.wait_time); cycle_count is kept
ExceptSleepDone ==
    /\ opc = "except_sleep"
    /\ opc' = "loop"
    /\ UNCHANGED <<orch, ocat, oidx, started, exits, cycle_count, prevAborted, interrupted>>
    /\ UNCHANGED nonOrchVars

\* start(): `except KeyboardInterrupt: break` (inside the handler's sleep the
\* interrupt is not caught and ends the process all the same)
KeyboardInterrupt ==
    /\ opc \in {"loop", "cycle", "job", "sleep", "except_sleep"}
    /\ opc' = "stopped"
    /\ interrupted' = TRUE
    /\ UNCHANGED <<orch, ocat, oidx, started, exits, cycle_count, prevAborted>>
    /\ UNCHANGED nonOrchVars

OrchOff ==
    /\ orch = "recent"
    /\ opc = "off"
    /\ ocat = 0
    /\ oidx = 0
    /\ started = <<>>
    /\ exits = <<>>
    /\ cycle_count = 1
    /\ prevAborted = FALSE
    /\ interrupted = FALSE

\* =====================================================================
\* INGESTION: raw tables, importers, file monitor
\* =====================================================================

NULL == "NULL"

\* no file of that name in the input directory (a file holds at least one row)
NoFile == <<>>

\* the detection blocks of monitor_for_files, in the order of the loop body;
\* each type is imported into the raw table of its name
FileTypes == <<"workstation", "testboard", "snfn">>

\* A row of an export, by the columns that decide deduplication: sn, pn and
\* model are never NULL, opt stands for the nullable columns (customer_pn,
\* first_station_start_time, failure_reasons, fixture_no, ...) and ts for
\* history_station_end_time (NULL: the cell is empty).
Row(sn, opt, ts) == [sn |-> sn, pn |-> "p1", model |-> "m1", opt |-> opt, ts |-> ts]

Cand == {Row("s1", "v", "t1"), Row("s1", NULL, "t1"), Row("s2", "v", NULL)}

\* the exports that can land: rows in file order, repeats being rows that
\* differ only in the columns drop_duplicates ignores
Files == UNION {[1..n -> Cand] : n \in 1..2}

EmptyBag == [r \in Cand |-> 0]

BagAdd(b, r) == [b EXCEPT ![r] = @ + 1]

BagSum(a, b) == [r \in Cand |-> a[r] + b[r]]

BagSize(b) ==
    LET RECURSIVE Sum(_)
        Sum(S) == IF S = {} THEN 0
                  ELSE LET r == CHOOSE x \in S : TRUE IN b[r] + Sum(S \ {r})
    IN Sum(Cand)

Present(b) == {r \in Cand : b[r] > 0}

\* SQL `a = b`: never true when either side is NULL
SqlEq(a, b) == a # NULL /\ b # NULL /\ a = b

\* df.drop_duplicates(subset=dedup_cols): the first of equal rows is kept
\* (pandas counts two empty cells as equal)
RECURSIVE DropDuplicates(_)
DropDuplicates(df) ==
    IF df = <<>> THEN <<>>
    ELSE LET init == DropDuplicates(SubSeq(df, 1, Len(df) - 1))
             last == df[Len(df)]
         IN IF last \in Range(init) THEN init ELSE Append(init, last)

\* The importer's check query, SELECT COUNT(*) ... WHERE col = %s AND ...:
\* workstation and testboard pass the values in the order of the columns;
\* snfn passes (sn, pn, model) where the query names (model, sn, pn).
Exists(t, table, r) ==
    IF t = "snfn"
    THEN \E x \in Present(table) :
             /\ SqlEq(x.opt, r.opt)
             /\ SqlEq(x.model, r.sn)
             /\ SqlEq(x.sn, r.pn)
             /\ SqlEq(x.pn, r.model)
             /\ SqlEq(x.ts, r.ts)
    ELSE \E x \in Present(table) :
             /\ SqlEq(x.sn, r.sn)
             /\ SqlEq(x.pn, r.pn)
             /\ SqlEq(x.model, r.model)
             /\ SqlEq(x.opt, r.opt)
             /\ SqlEq(x.ts, r.ts)

\* The columns of the table's UNIQUE constraint that the importer fills.
\* workstation_unique_constraint includes outbound_version, which the
\* importer never inserts (NULL), so it never fires: no column set.
UniqueColumns(t) ==
    CASE t = "workstation" -> {}
      [] t = "testboard" -> {"sn", "pn", "model", "opt", "ts"}
      [] t = "snfn" -> {"sn", "pn", "opt", "ts"}

\* a UNIQUE constraint holds two rows apart when any of its columns is NULL
UniqueConflict(t, table, r) ==
    /\ UniqueColumns(t) # {}
    /\ \E x \in Present(table) : \A c \in UniqueColumns(t) : SqlEq(x[c], r[c])

\* The check query of testboard and snfn is given the end time as it was
\* converted (NaT for an empty cell), which the database rejects; the
\* workstation importer passes None and the check finds no match.
CheckRaises(t, rows) ==
    /\ t # "workstation"
    /\ \E i \in 1..Len(rows) : rows[i].ts = NULL

\* What INSERT does with one row, given the rows the transaction sees:
\* history_station_end_time is NOT NULL in every raw table; testboard has no
\* ON CONFLICT clause; snfn has ON CONFLICT DO NOTHING.
InsertOutcome(t, view, r) ==
    IF r.ts = NULL THEN "raise"
    ELSE IF UniqueConflict(t, view, r)
         THEN (IF t = "snfn" THEN "skip" ELSE "raise")
         ELSE "insert"

\* conn.commit(): the inserted rows join the table
Commit(table, pending) == BagSum(table, pending)

\* conn.rollback(), or the connection closed without commit
MutRollbackKeepsRows(table, pending) == BagSum(table, pending)

Rollback(table, pending) == table

CurType == FileTypes[mtype]

MutAdvanceRetries ==
    /\ mpc' = "check"
    /\ UNCHANGED mtype

\* monitor_for_files: on to the next detection block, or time.sleep(10)
Advance ==
    IF mtype < Len(FileTypes)
    THEN /\ mtype' = mtype + 1
         /\ mpc' = "check"
    ELSE /\ mpc' = "sleep"
         /\ UNCHANGED mtype

\* the reporting portal writes an export under its fixed name
Land ==
    /\ landings < MaxLandings
    /\ \E t \in Range(FileTypes), f \in Files :
         xls' = [xls EXCEPT ![t] = f]
    /\ landings' = landings + 1
    /\ UNCHANGED <<raw, xlsx, mpc, mtype, mapped, new_records, txn,
                   rawBefore, lastImport, lastResult, failedRows>>
    /\ UNCHANGED nonIngestVars

\* monitor_for_files: if os.path.exists(<TYPE>_FILEPATH)
CheckFile ==
    /\ mpc = "check"
    /\ IF xls[CurType] # NoFile
       THEN /\ mpc' = "convert"
            /\ UNCHANGED mtype
       ELSE Advance
    /\ UNCHANGED <<raw, xls, xlsx, mapped, new_records, txn, landings,
                   rawBefore, lastImport, lastResult, failedRows>>
    /\ UNCHANGED nonIngestVars

\* process_file step 1-2, convert_xls_to_xlsx: LibreOffice writes the .xlsx
\* beside the .xls, or fails (return code, 60 s timeout, exception)
Convert ==
    /\ mpc = "convert"
    /\ \E ok \in BOOLEAN :
         IF ok
         THEN /\ xlsx' = [xlsx EXCEPT ![CurType] = xls[CurType]]
              /\ mpc' = "remove_xls"
              /\ UNCHANGED <<mtype, lastResult>>
         ELSE /\ lastResult' = "False"
              /\ Advance
              /\ UNCHANGED xlsx
    /\ UNCHANGED <<raw, xls, mapped, new_records, txn, landings,
                   rawBefore, lastImport, failedRows>>
    /\ UNCHANGED nonIngestVars

\* process_file step 3-4: os.remove(file_path), then the import script is
\* started on the .xlsx
RemoveXls ==
    /\ mpc = "remove_xls"
    /\ xls' = [xls EXCEPT ![CurType] = NoFile]
    /\ mpc' = "imp_read"
    /\ rawBefore' = raw[CurType]
    /\ UNCHANGED <<raw, xlsx, mtype, mapped, new_records, txn, landings,
                   lastImport, lastResult, failedRows>>
    /\ UNCHANGED nonIngestVars

\* importer main: pd.read_excel, drop_duplicates, the mapping loop
ImportRead ==
    /\ mpc = "imp_read"
    /\ mapped' = DropDuplicates(xlsx[CurType])
    /\ new_records' = <<>>
    /\ txn' = EmptyBag
    /\ mpc' = "imp_check"
    /\ UNCHANGED <<raw, xls, xlsx, mtype, landings, rawBefore, lastImport, lastResult, failedRows>>
    /\ UNCHANGED nonIngestVars

\* importer main: `except Exception: conn.rollback()`; the script then ends
\* normally, with exit status 0
FailImport ==
    /\ raw' = [raw EXCEPT ![CurType] = Rollback(raw[CurType], txn)]
    /\ failedRows' = BagSize(txn)
    /\ txn' = EmptyBag
    /\ lastImport' = [type |-> CurType, how |-> "failed"]
    /\ mpc' = "imp_exit"

\* importer main: the existence check of every mapped row
ImportCheck ==
    /\ mpc = "imp_check"
    /\ IF CheckRaises(CurType, mapped)
       THEN /\ FailImport
            /\ UNCHANGED new_records
       ELSE /\ new_records' = SelectSeq(mapped, LAMBDA r : ~Exists(CurType, raw[CurType], r))
            /\ mpc' = IF new_records' # <<>> THEN "imp_insert" ELSE "imp_remove"
            /\ lastImport' = [type |-> CurType, how |-> "nothing"]
            /\ UNCHANGED <<raw, txn, failedRows>>
    /\ UNCHANGED <<xls, xlsx, mtype, mapped, landings, rawBefore, lastResult>>
    /\ UNCHANGED nonIngestVars

\* importer main: execute_values sends the rows of new_records in order,
\* inside the one open transaction
ImportInsert ==
    /\ mpc = "imp_insert"
    /\ LET r == Head(new_records)
           o == InsertOutcome(CurType, BagSum(raw[CurType], txn), r)
       IN IF o = "raise"
          THEN /\ FailImport
               /\ UNCHANGED new_records
          ELSE /\ txn' = IF o = "insert" THEN BagAdd(txn, r) ELSE txn
               /\ new_records' = Tail(new_records)
               /\ mpc' = IF Tail(new_records) = <<>> THEN "imp_commit" ELSE "imp_insert"
               /\ UNCHANGED <<raw, lastImport, failedRows>>
    /\ UNCHANGED <<xls, xlsx, mtype, mapped, landings, rawBefore, lastResult>>
    /\ UNCHANGED nonIngestVars

\* importer main: conn.commit()
ImportCommit ==
    /\ mpc = "imp_commit"
    /\ raw' = [raw EXCEPT ![CurType] = Commit(raw[CurType], txn)]
    /\ txn' = EmptyBag
    /\ lastImport' = [type |-> CurType, how |-> "committed"]
    /\ mpc' = "imp_remove"
    /\ UNCHANGED <<xls, xlsx, mtype, mapped, new_records, landings,
                   rawBefore, lastResult, failedRows>>
    /\ UNCHANGED nonIngestVars

\* importer main: os.remove(file_path) of the .xlsx after the import
ImportRemove ==
    /\ mpc = "imp_remove"
    /\ xlsx' = [xlsx EXCEPT ![CurType] = NoFile]
    /\ mpc' = "imp_exit"
    /\ UNCHANGED <<raw, xls, mtype, mapped, new_records, txn, landings,
                   rawBefore, lastImport, lastResult, failedRows>>
    /\ UNCHANGED nonIngestVars

\* an exception at any statement of the importer's try block (the file
\* cannot be read, the connection drops, ...)
ImportError ==
    /\ mpc \in {"imp_read", "imp_check", "imp_insert", "imp_commit"}
    /\ FailImport
    /\ UNCHANGED <<xls, xlsx, mtype, mapped, new_records, landings, rawBefore, lastResult>>
    /\ UNCHANGED nonIngestVars

\* process_file step 5: the importer returned (its locals are gone); its
\* status is 0 on both paths
ImportExit ==
    /\ mpc = "imp_exit"
    /\ lastResult' = "True"
    /\ mapped' = <<>>
    /\ new_records' = <<>>
    /\ rawBefore' = EmptyBag
    /\ failedRows' = 0
    /\ Advance
    /\ UNCHANGED <<raw, xls, xlsx, txn, landings, lastImport>>
    /\ UNCHANGED nonIngestVars

\* process_file: subprocess.TimeoutExpired after 300 s; the importer is
\* killed where it stands and the server aborts its open transaction
ImportTimeout ==
    /\ mpc \in {"imp_read", "imp_check", "imp_insert", "imp_commit", "imp_remove"}
    /\ raw' = [raw EXCEPT ![CurType] = Rollback(raw[CurType], txn)]
    /\ txn' = EmptyBag
    /\ lastImport' = IF mpc = "imp_remove" THEN lastImport
                      ELSE [type |-> CurType, how |-> "killed"]
    /\ lastResult' = "False"
    /\ mapped' = <<>>
    /\ new_records' = <<>>
    /\ rawBefore' = EmptyBag
    /\ failedRows' = 0
    /\ Advance
    /\ UNCHANGED <<xls, xlsx, landings>>
    /\ UNCHANGED nonIngestVars

\* monitor_for_files: time.sleep(10), then the loop body again
Sleep ==
    /\ mpc = "sleep"
    /\ mtype' = 1
    /\ mpc' = "check"
    /\ UNCHANGED <<raw, xls, xlsx, mapped, new_records, txn, landings,
                   rawBefore, lastImport, lastResult, failedRows>>
    /\ UNCHANGED nonIngestVars

EmptyTables == [t \in Range(FileTypes) |-> EmptyBag]

IngestOff ==
    /\ raw = EmptyTables
    /\ xls = [t \in Range(FileTypes) |-> NoFile]
    /\ xlsx = [t \in Range(FileTypes) |-> NoFile]
    /\ mpc = "off"
    /\ mtype = 1
    /\ mapped = <<>>
    /\ new_records = <<>>
    /\ txn = EmptyBag
    /\ landings = 0
    /\ rawBefore = EmptyBag
    /\ lastImport = [type |-> "none", how |-> "none"]
    /\ lastResult = "none"
    /\ failedRows = 0

\* =====================================================================
\* AGGREGATION: jobs over workstation_master_log
\* =====================================================================

\* the first CURRENT_DATE of a behaviour, a Sunday
StartDay == 2 * 7

LastDay == StartDay + 1

\* WHERE service_flow NOT IN ('NC Sort', 'RO') AND service_flow IS NOT NULL
ExcludedFlows == {"NC Sort", "RO"}

\* daily TPY: AND model IN ('Tesla SXM4', 'Tesla SXM5')
TpyModels == {"Tesla SXM4", "Tesla SXM5"}

\* A row of workstation_master_log by the columns the jobs read (all rows
\* have the same pn); the end time is a day and a time of day, 0 for 00:00
\* and 1 for any later time.
Event(sn, model, ws, status, sf, day, tod) ==
    [sn |-> sn, model |-> model, ws |-> ws, status |-> status, sf |-> sf,
     day |-> day, tod |-> tod]

\* the events an import can bring
Pool ==
    {Event("s1", "Tesla SXM4", "PACKING", "Pass", "Production", StartDay, 1),
     Event("s2", "Tesla SXM5", "PACKING", "Pass", "Production", StartDay, 0),
     Event("s3", "Tesla SXM4", "BAT", "Fail", "Production", StartDay - 1, 1),
     Event("s4", "Tesla SXM4", "PACKING", "Pass", "RO", StartDay - 1, 1),
     Event("s5", "Tesla SXM5", "PACKING", "Pass", "Production", StartDay - 6, 1)}

Qualifying(E) == {e \in E : e.sf # NULL /\ e.sf \notin ExcludedFlows}

\* ---- P-chart: GROUP BY DATE(end_time), pn, model, workstation_name, service_flow
PchartKey(e) == [date |-> e.day, model |-> e.model, ws |-> e.ws, sf |-> e.sf]

PchartRow(E, k) ==
    LET G == {e \in E : PchartKey(e) = k}
    IN [date |-> k.date, model |-> k.model, ws |-> k.ws, sf |-> k.sf,
        total |-> Cardinality(G),
        pass |-> Cardinality({e \in G : e.status = "Pass"}),
        fail |-> Cardinality({e \in G : e.status # "Pass"})]

PchartSelect(E) == {PchartRow(E, k) : k \in {PchartKey(e) : e \in E}}

\* the SELECT of historical/workstation/aggregate_pchart_all_time.py
PchartAllTimeSelect(E) == PchartSelect(Qualifying(E))

\* history_station_end_time >= CURRENT_DATE - INTERVAL '6 days'
\* AND history_station_end_time <= CURRENT_DATE  (CURRENT_DATE is 00:00 of today)
InRecentWindow(e, d) ==
    /\ e.day >= d - 6
    /\ (e.day < d \/ (e.day = d /\ e.tod = 0))

\* the SELECT of recent/workstation/aggregate_pchart_daily.py
PchartRecentSelect(E, d) == PchartSelect({e \in Qualifying(E) : InRecentWindow(e, d)})

\* PRIMARY KEY (date, pn, workstation_name, service_flow)
PchartPk(r) == <<r.date, r.ws, r.sf>>

\* two rows of one INSERT meet on the primary key: the statement fails
PkConflict(R) == \E r1 \in R, r2 \in R : r1 # r2 /\ PchartPk(r1) = PchartPk(r2)

\* created_at TIMESTAMP DEFAULT CURRENT_TIMESTAMP
Stamped(r, t) ==
    [date |-> r.date, model |-> r.model, ws |-> r.ws, sf |-> r.sf,
     total |-> r.total, pass |-> r.pass, fail |-> r.fail, created_at |-> t]

\* a pchart row without its created_at
Counts(r) ==
    [date |-> r.date, model |-> r.model, ws |-> r.ws, sf |-> r.sf,
     total |-> r.total, pass |-> r.pass, fail |-> r.fail]

\* TRUNCATE TABLE workstation_pchart_daily; INSERT ... SELECT
PchartRebuild(R, t) == {Stamped(r, t) : r \in R}

MutUpsertTruncates(T, R, t) == {Stamped(r, t) : r \in R}

\* INSERT ... SELECT ... ON CONFLICT (date, pn, workstation_name, service_flow)
\* DO UPDATE SET total_count, pass_count, fail_count, model = EXCLUDED.*
PchartUpsert(T, R, t) ==
    {x \in T : ~\E r \in R : PchartPk(r) = PchartPk(x)}
    \cup {Stamped(r, IF \E x \in T : PchartPk(x) = PchartPk(r)
                     THEN (CHOOSE x \in T : PchartPk(x) = PchartPk(r)).created_at
                     ELSE t) : r \in R}

MutPackDateSundayOneBack(day) ==
    IF day % 7 \in {0, 6} THEN day - 1 ELSE day

\* ---- packing: weekend events are counted on the Friday before
PackDate(day) ==
    IF day % 7 = 6 THEN day - 1
    ELSE IF day % 7 = 0 THEN day - 2
    ELSE day

\* AGGREGATE_SQL of workstation_agg/aggregate_packing_weekly_all_time_dedup.py
PackingSelect(E) ==
    LET P == {e \in E : e.ws = "PACKING" /\ e.status = "Pass"}
        K == {[pack_date |-> PackDate(e.day), model |-> e.model] : e \in P}
    IN {[pack_date |-> k.pack_date, model |-> k.model,
         packed_count |-> Cardinality({e \in P : PackDate(e.day) = k.pack_date
                                                  /\ e.model = k.model})] : k \in K}

\* AGGREGATE_SQL of recent/workstation/aggregate_packing_daily.py:
\* AND history_station_end_time >= CURRENT_DATE - INTERVAL '7 days'
PackingRecentSelect(E, d) == PackingSelect({e \in E : e.day >= d - 7})

\* ---- daily TPY
\* get_week_bounds: target_date.weekday() is 0 on a Monday
WeekStart(day) == day - ((day + 6) % 7)

WeekEnd(day) == WeekStart(day) + 6

\* get_week_id: the ISO week of the date (weeks start on Monday)
WeekId(day) == (day + 6) \div 7

\* an end time as a number: two instants a day
Time(e) == 2 * e.day + e.tod

\* calculate_weekly_starters_for_date: the (sn, model) pairs whose first
\* qualifying event lies in the week of the date
WeekStarters(E, day) ==
    LET Q == Qualifying(E)
        First(sn, model) ==
            CHOOSE t \in {Time(e) : e \in {x \in Q : x.sn = sn /\ x.model = model}} :
                \A e \in Q : (e.sn = sn /\ e.model = model) => t <= Time(e)
    IN Cardinality({p \in {<<e.sn, e.model>> : e \in Q} :
                       /\ First(p[1], p[2]) >= 2 * WeekStart(day)
                       /\ First(p[1], p[2]) < 2 * (WeekEnd(day) + 1)})

MutYieldPctTruncates(passed, total) ==
    IF total = 0 THEN 0 ELSE (passed * 10000) \div total

\* round(passed / total * 100, 2), in hundredths of a percent (ties to even)
YieldPct(passed, total) ==
    IF total = 0 THEN 0
    ELSE LET q == (passed * 10000) \div total
             r == (passed * 10000) % total
         IN IF 2 * r > total THEN q + 1
            ELSE IF 2 * r = total THEN q + (q % 2)
            ELSE q

\* aggregate_daily_tpy_for_date: the per-station SELECT and the values of
\* the INSERT for one date
TpyRows(E, day) ==
    LET D == {e \in Qualifying(E) : e.day = day /\ e.model \in TpyModels}
        K == {<<e.model, e.ws>> : e \in D}
        G(k) == {e \in D : e.model = k[1] /\ e.ws = k[2]}
        Passed(k) == Cardinality({e \in G(k) : e.status = "Pass"})
    IN {[date |-> day, model |-> k[1], ws |-> k[2],
         total |-> Cardinality(G(k)),
         passed |-> Passed(k),
         failed |-> Cardinality({e \in G(k) : e.status # "Pass"}),
         yield |-> YieldPct(Passed(k), Cardinality(G(k))),
         week_id |-> WeekId(day), week_start |-> WeekStart(day),
         week_end |-> WeekEnd(day), starters |-> WeekStarters(E, day)] : k \in K}

\* ON CONFLICT (date_id, model, workstation_name)
TpyKey(r) == <<r.date, r.model, r.ws>>

TpyStamped(r, t) ==
    [date |-> r.date, model |-> r.model, ws |-> r.ws, total |-> r.total,
     passed |-> r.passed, failed |-> r.failed, yield |-> r.yield,
     week_id |-> r.week_id, week_start |-> r.week_start, week_end |-> r.week_end,
     starters |-> r.starters, created_at |-> t]

\* what DO UPDATE SET ... created_at = NOW() stores in created_at
UpdatedCreatedAt(old, t) == t

MutTpyUpsertTruncates(T, R, t) == {TpyStamped(r, t) : r \in R}

\* INSERT INTO daily_tpy_metrics ... ON CONFLICT ... DO UPDATE SET
\* <measures> = EXCLUDED.<measures>, created_at = NOW(); a new row takes
\* the column default, the time of the insert
TpyUpsert(T, R, t) ==
    {x \in T : ~\E r \in R : TpyKey(r) = TpyKey(x)}
    \cup {TpyStamped(r, IF \E x \in T : TpyKey(x) = TpyKey(r)
                        THEN UpdatedCreatedAt((CHOOSE x \in T : TpyKey(x) = TpyKey(r)).created_at, t)
                        ELSE t) : r \in R}

\* get_all_available_dates: SELECT DISTINCT DATE(end_time) ... ORDER BY test_date
RECURSIVE SortedSeq(_)
SortedSeq(S) ==
    IF S = {} THEN <<>>
    ELSE LET m == CHOOSE x \in S : \A y \in S : x <= y
         IN <<m>> \o SortedSeq(S \ {m})

TpyDates(E) == SortedSeq({e.day : e \in Qualifying(E)})

\* ---- the job runs
Jobs == {"pchart_all_time", "pchart_recent", "packing_all_time",
         "packing_recent", "tpy_daily"}

NoTables == <<{}, {}, {}>>

\* the script ends with exit status 0 (ok) or not
Finish(j, ok) ==
    /\ ajob' = "idle"
    /\ apc' = "idle"
    /\ prev' = [job |-> j, ok |-> ok]
    /\ before' = NoTables

\* an orchestrator (or an operator) starts one of the scripts
JobStart ==
    /\ ajob = "idle"
    /\ now < MaxRuns
    /\ \E j \in Jobs : ajob' = j
    /\ apc' = "run"
    /\ now' = now + 1
    /\ before' = <<pchart, packing, tpy>>
    /\ prevQuiet' = quiet
    /\ quiet' = TRUE
    /\ UNCHANGED <<events, today, pchart, packing, tpy, adates, prev>>
    /\ UNCHANGED nonAggVars

\* historical/workstation/aggregate_pchart_all_time.py: TRUNCATE and
\* INSERT ... SELECT in one transaction; an error is re-raised by main
PchartAllTimeRun ==
    /\ ajob = "pchart_all_time"
    /\ \E err \in BOOLEAN :
         LET R == PchartAllTimeSelect(events)
         IN IF err \/ PkConflict(R)
            THEN /\ UNCHANGED pchart
                 /\ Finish(ajob, FALSE)
            ELSE /\ pchart' = PchartRebuild(R, now)
                 /\ Finish(ajob, TRUE)
    /\ UNCHANGED <<events, today, now, packing, tpy, adates, prevQuiet, quiet>>
    /\ UNCHANGED nonAggVars

\* recent/workstation/aggregate_pchart_daily.py: one INSERT ... SELECT ...
\* ON CONFLICT DO UPDATE, which cannot touch a row twice; an error is
\* re-raised by main
PchartRecentRun ==
    /\ ajob = "pchart_recent"
    /\ \E err \in BOOLEAN :
         LET R == PchartRecentSelect(events, today)
         IN IF err \/ PkConflict(R)
            THEN /\ UNCHANGED pchart
                 /\ Finish(ajob, FALSE)
            ELSE /\ pchart' = PchartUpsert(pchart, R, now)
                 /\ Finish(ajob, TRUE)
    /\ UNCHANGED <<events, today, now, packing, tpy, adates, prevQuiet, quiet>>
    /\ UNCHANGED nonAggVars

\* workstation_agg/aggregate_packing_weekly_all_time_dedup.py main: the
\* INSERT is executed, cur.fetchall() then raises (an INSERT returns no
\* rows), the handler rolls back; there is no commit on any path and the
\* script ends normally
PackingAllTimeRun ==
    /\ ajob = "packing_all_time"
    /\ UNCHANGED packing
    /\ Finish(ajob, TRUE)
    /\ UNCHANGED <<events, today, now, pchart, tpy, adates, prevQuiet, quiet>>
    /\ UNCHANGED nonAggVars

\* recent/workstation/aggregate_packing_daily.py main: CREATE_TABLE_SQL is
\* not defined in the module, the first statement raises NameError, the
\* handler rolls back and the script ends normally
PackingRecentRun ==
    /\ ajob = "packing_recent"
    /\ UNCHANGED packing
    /\ Finish(ajob, TRUE)
    /\ UNCHANGED <<events, today, now, pchart, tpy, adates, prevQuiet, quiet>>
    /\ UNCHANGED nonAggVars

\* aggregate_daily_tpy_metrics_all_time: get_all_available_dates, which
\* indexes dates[0] and so raises on an empty list
TpyStart ==
    /\ ajob = "tpy_daily"
    /\ apc = "run"
    /\ IF TpyDates(events) = <<>>
       THEN /\ Finish(ajob, FALSE)
            /\ UNCHANGED adates
       ELSE /\ adates' = TpyDates(events)
            /\ apc' = "dates"
            /\ UNCHANGED <<ajob, prev, before>>
    /\ UNCHANGED <<events, today, now, pchart, packing, tpy, prevQuiet, quiet>>
    /\ UNCHANGED nonAggVars

\* aggregate_daily_tpy_metrics_all_time: one date of the loop, its own
\* connection and commit; an exception is caught and the loop goes on
TpyDate ==
    /\ ajob = "tpy_daily"
    /\ apc = "dates"
    /\ \E err \in BOOLEAN :
         tpy' = IF err THEN tpy ELSE TpyUpsert(tpy, TpyRows(events, Head(adates)), now)
    /\ adates' = Tail(adates)
    /\ IF Tail(adates) = <<>>
       THEN Finish(ajob, TRUE)
       ELSE UNCHANGED <<ajob, apc, prev, before>>
    /\ UNCHANGED <<events, today, now, pchart, packing, prevQuiet, quiet>>
    /\ UNCHANGED nonAggVars

\* an import commits a new event
RawInsert ==
    /\ \E e \in Pool \ events :
         /\ e.day <= today
         /\ events' = events \cup {e}
    /\ quiet' = FALSE
    /\ UNCHANGED <<today, now, pchart, packing, tpy, ajob, apc, adates,
                   before, prev, prevQuiet>>
    /\ UNCHANGED nonAggVars

\* the date changes
Midnight ==
    /\ today < LastDay
    /\ today' = today + 1
    /\ quiet' = FALSE
    /\ UNCHANGED <<events, now, pchart, packing, tpy, ajob, apc, adates,
                   before, prev, prevQuiet>>
    /\ UNCHANGED nonAggVars

AggOff ==
    /\ events = {}
    /\ today = StartDay
    /\ now = 0
    /\ pchart = {}
    /\ packing = {}
    /\ tpy = {}
    /\ ajob = "off"
    /\ apc = "idle"
    /\ adates = <<>>
    /\ before = NoTables
    /\ prev = [job |-> "none", ok |-> FALSE]
    /\ prevQuiet = FALSE
    /\ quiet = FALSE

\* =====================================================================
\* CONCURRENT AGGREGATION: the scripts of the two orchestrators, each
\* running in its own process and database session
\* =====================================================================

\* the two ScriptOrchestrator processes that run side by side
Runners == {"recent", "historical"}

Other(r) == IF r = "recent" THEN "historical" ELSE "recent"

\* WHERE fixture_no NOT IN ('NCS039-01', ..., 'NCS043-04')
ExcludedFixtures == {"NCS039-01"}

\* A row of testboard_master_log by the columns the jobs read; the
\* importer stores NULL for a blank work_station_process or fixture_no.
TbEvent(sn, fixture_no, wsp, status, day, reasons) ==
    [sn |-> sn, model |-> "Tesla SXM4", pn |-> "pn1", workstation_name |-> "BAT",
     fixture_no |-> fixture_no, work_station_process |-> wsp,
     status |-> status, day |-> day, failure_reasons |-> reasons,
     failure_note |-> "note"]

\* the rows testboard_master_log can hold
TbPool ==
    {TbEvent("t1", "F1", "TEST", "Pass", 2, <<>>),
     TbEvent("t2", "F1", "TEST", "Fail", 2, <<"E", "R", "0", "0", "1">>),
     TbEvent("t3", NULL, "TEST", "Fail", 1, <<"0", "2">>),
     TbEvent("t4", "F2", NULL, "Pass", 1, <<>>),
     TbEvent("t5", "NCS039-01", "TEST", "Fail", 0, <<"0", "0", "3">>)}

\* fixture_no NOT IN (...): not true of a NULL fixture_no
FixtureFilter(E) ==
    {e \in E : e.fixture_no # NULL /\ e.fixture_no \notin ExcludedFixtures}

\* ---- fixture_performance_daily
FixtureKey(e) ==
    [day |-> e.day, fixture_no |-> e.fixture_no, model |-> e.model, pn |-> e.pn,
     workstation_name |-> e.workstation_name]

MutFixtureSelectUnordered(E) ==
    LET F == FixtureFilter(E)
    IN {LET G == {e \in F : FixtureKey(e) = k}
        IN [day |-> k.day, fixture_no |-> k.fixture_no, model |-> k.model,
            pn |-> k.pn, workstation_name |-> k.workstation_name,
            pass |-> Cardinality(G),
            fail |-> Cardinality({e \in G : e.status = "Pass"}),
            total |-> Cardinality({e \in G : e.status = "Fail"})]
        : k \in {FixtureKey(e) : e \in F}}

\* AGGREGATE_SQL and the reordering of its columns into the INSERT
FixtureSelect(E) ==
    LET F == FixtureFilter(E)
    IN {LET G == {e \in F : FixtureKey(e) = k}
        IN [day |-> k.day, fixture_no |-> k.fixture_no, model |-> k.model,
            pn |-> k.pn, workstation_name |-> k.workstation_name,
            pass |-> Cardinality({e \in G : e.status = "Pass"}),
            fail |-> Cardinality({e \in G : e.status = "Fail"}),
            total |-> Cardinality(G)] : k \in {FixtureKey(e) : e \in F}}

FixturePk(r) == <<r.day, r.fixture_no, r.model, r.pn, r.workstation_name>>

\* ---- testboard_station_performance_daily
StationKey(e) ==
    [end_date |-> e.day, model |-> e.model,
     work_station_process |-> e.work_station_process,
     workstation_name |-> e.workstation_name]

\* ROUND(fail::numeric / NULLIF(total, 0), 3), in thousandths; numeric
\* ROUND rounds a tie away from zero
FailureRate(fail, total) == (2 * 1000 * fail + total) \div (2 * total)

StationSelect(E) ==
    LET F == FixtureFilter(E)
    IN {LET G == {e \in F : StationKey(e) = k}
            f == Cardinality({e \in G : e.status = "Fail"})
        IN [end_date |-> k.end_date, model |-> k.model,
            work_station_process |-> k.work_station_process,
            workstation_name |-> k.workstation_name,
            pass |-> Cardinality({e \in G : e.status = "Pass"}),
            fail |-> f,
            total |-> Cardinality(G),
            failurerate |-> FailureRate(f, Cardinality(G))]
        : k \in {StationKey(e) : e \in F}}

StationPk(r) == <<r.end_date, r.model, r.work_station_process, r.workstation_name>>

\* ---- snfn_aggregate_daily
\* RIGHT(failure_reasons, 3)
Right(s, n) == IF Len(s) <= n THEN s ELSE SubSeq(s, Len(s) - n + 1, Len(s))

\* SELECT DISTINCT ... CONCAT('EC', RIGHT(failure_reasons, 3)) ...
\* WHERE history_station_passing_status = 'Fail'
SnfnRow(e) ==
    [fixture_no |-> e.fixture_no, workstation_name |-> e.workstation_name,
     sn |-> e.sn, pn |-> e.pn, model |-> e.model,
     error_code |-> <<"E", "C">> \o Right(e.failure_reasons, 3),
     error_disc |-> e.failure_note, end_time |-> e.day]

\* ORDER BY history_station_end_time DESC
RECURSIVE SnfnSorted(_)
SnfnSorted(R) ==
    IF R = {} THEN <<>>
    ELSE LET r == CHOOSE x \in R : \A y \in R : y.end_time <= x.end_time
         IN <<r>> \o SnfnSorted(R \ {r})

SnfnSelect(E) == SnfnSorted({SnfnRow(e) : e \in {x \in E : x.status = "Fail"}})

SnfnPk(r) == <<r.sn, r.fixture_no, r.model, r.workstation_name, r.error_code, r.end_time>>

\* ---- the INSERT ... ON CONFLICT DO UPDATE of the three scripts
ScriptPk(j, r) ==
    CASE j = "fixture" -> FixturePk(r)
      [] j = "station" -> StationPk(r)
      [] j = "snfn" -> SnfnPk(r)

\* the text columns of the primary key; its date column comes from
\* history_station_end_time, which is NOT NULL in testboard_master_log
PkText(j, r) ==
    CASE j = "fixture" -> {r.fixture_no, r.model, r.pn, r.workstation_name}
      [] j = "station" -> {r.model, r.work_station_process, r.workstation_name}
      [] j = "snfn" -> {r.sn, r.fixture_no, r.model, r.workstation_name}

\* a primary-key column is NOT NULL
NotNullViolation(j, r) == NULL \in PkText(j, r)

TbUpsert(j, T, R) ==
    {x \in T : ~\E r \in R : ScriptPk(j, r) = ScriptPk(j, x)} \cup R

\* the scripts a runner can be executing
Scripts == {"fixture", "station", "snfn", "packing_recent", "packing_all_time"}

\* AutoAggregator_Historical.py runs the station and snfn scripts; the
\* fixture and packing scripts have a counterpart in both programs
RunBy(r) == IF r = "historical" THEN Scripts ELSE Scripts \ {"station", "snfn"}

\* the derived table a script writes
Target(j) ==
    CASE j = "fixture" -> fixture
      [] j = "station" -> station
      [] j = "snfn" -> snfn
      [] OTHER -> packing

NoRun == [job |-> "none", how |-> "none"]

\* the script of runner r ends (always with exit status 0): "ok" when
\* main ran to its end, "error" when the except block ran on an error of
\* the script or of its data, "fault" when it ran on a database failure
RFinish(r, how) ==
    /\ rpc' = [rpc EXCEPT ![r] = "idle"]
    /\ rlast' = [rlast EXCEPT ![r] = [job |-> rjob[r], how |-> how]]
    /\ rjob' = [rjob EXCEPT ![r] = "none"]
    /\ rrows' = [rrows EXCEPT ![r] = {}]
    /\ rbefore' = [rbefore EXCEPT ![r] = {}]

\* run_script: subprocess.run of one script
RStart(r) ==
    /\ rpc[r] = "idle"
    /\ \E j \in RunBy(r) :
         /\ rjob' = [rjob EXCEPT ![r] = j]
         /\ rbefore' = [rbefore EXCEPT ![r] = Target(j)]
    /\ rpc' = [rpc EXCEPT ![r] = "create"]
    /\ rlast' = [rlast EXCEPT ![r] = NoRun]
    /\ overlap' = (rpc[Other(r)] # "idle")
    /\ UNCHANGED <<tblog, fixture, station, snfn, rrows, srows, stxn,
                   success_count, error_count, inserted>>
    /\ UNCHANGED nonTbVars

\* cur.execute(CREATE_TABLE_SQL); conn.commit(). In recent/workstation/
\* aggregate_packing_daily.py the name CREATE_TABLE_SQL is not defined: the
\* NameError is caught by the except block.
RCreate(r) ==
    /\ rpc[r] = "create"
    /\ IF rjob[r] = "packing_recent"
       THEN RFinish(r, "error")
       ELSE /\ rpc' = [rpc EXCEPT ![r] =
                          IF rjob[r] = "packing_all_time" THEN "aggregate" ELSE "truncate"]
            /\ UNCHANGED <<rjob, rrows, rlast, rbefore>>
    /\ UNCHANGED <<tblog, fixture, station, snfn, overlap, srows, stxn,
                   success_count, error_count, inserted>>
    /\ UNCHANGED nonTbVars

\* workstation_agg/aggregate_packing_weekly_all_time_dedup.py:
\* cur.execute(AGGREGATE_SQL); rows = cur.fetchall() raises after an INSERT;
\* the except block rolls the upsert back
RAggregate(r) ==
    /\ rpc[r] = "aggregate"
    /\ RFinish(r, "error")
    /\ UNCHANGED <<tblog, fixture, station, snfn, overlap, srows, stxn,
                   success_count, error_count, inserted>>
    /\ UNCHANGED nonTbVars

\* cur.execute(TRUNCATE_TABLE_SQL); conn.commit()
RTruncate(r) ==
    /\ rpc[r] = "truncate"
    /\ fixture' = IF rjob[r] = "fixture" THEN {} ELSE fixture
    /\ station' = IF rjob[r] = "station" THEN {} ELSE station
    /\ snfn' = IF rjob[r] = "snfn" THEN {} ELSE snfn
    /\ rpc' = [rpc EXCEPT ![r] = "select"]
    /\ UNCHANGED <<tblog, rjob, rrows, rlast, rbefore, overlap, srows, stxn,
                   success_count, error_count, inserted>>
    /\ UNCHANGED nonTbVars

\* cur.execute(AGGREGATE_SQL); rows = cur.fetchall(); a database error at
\* the statement goes to the except block of main
RSelect(r) ==
    /\ rpc[r] = "select"
    /\ \E err \in BOOLEAN :
         IF err
         THEN /\ RFinish(r, "fault")
              /\ UNCHANGED srows
         ELSE IF rjob[r] = "snfn"
         THEN /\ srows' = SnfnSelect(tblog)
              /\ IF SnfnSelect(tblog) = <<>>
                 THEN RFinish(r, "ok")
                 ELSE /\ rpc' = [rpc EXCEPT ![r] = "rows"]
                      /\ UNCHANGED <<rjob, rrows, rlast, rbefore>>
         ELSE /\ rrows' = [rrows EXCEPT ![r] =
                              IF rjob[r] = "fixture" THEN FixtureSelect(tblog)
                                                     ELSE StationSelect(tblog)]
              /\ rpc' = [rpc EXCEPT ![r] = "insert"]
              /\ UNCHANGED <<rjob, rlast, rbefore, srows>>
    /\ UNCHANGED <<tblog, fixture, station, snfn, overlap, stxn,
                   success_count, error_count, inserted>>
    /\ UNCHANGED nonTbVars

\* if rows: execute_values(cur, INSERT_SQL, values); conn.commit()
\* else: print("No data to aggregate."); an error of the INSERT goes to the
\* except block of main
RInsert(r) ==
    /\ rpc[r] = "insert"
    /\ \E err \in BOOLEAN :
         IF rrows[r] = {}
         THEN /\ RFinish(r, "ok")
              /\ UNCHANGED <<fixture, station>>
         ELSE IF \E x \in rrows[r] : NotNullViolation(rjob[r], x)
         THEN /\ RFinish(r, "error")
              /\ UNCHANGED <<fixture, station>>
         ELSE IF err
         THEN /\ RFinish(r, "fault")
              /\ UNCHANGED <<fixture, station>>
         ELSE /\ fixture' = IF rjob[r] = "fixture"
                            THEN TbUpsert("fixture", fixture, rrows[r]) ELSE fixture
              /\ station' = IF rjob[r] = "station"
                            THEN TbUpsert("station", station, rrows[r]) ELSE station
              /\ RFinish(r, "ok")
    /\ UNCHANGED <<tblog, snfn, overlap, srows, stxn,
                   success_count, error_count, inserted>>
    /\ UNCHANGED nonTbVars

\* snfn: for r in rows: try: cur.execute(single_insert_sql, ...);
\* success_count += 1; except: error_count += 1; conn.rollback();
\* cur = conn.cursor()
RSnfnRow(r) ==
    /\ rpc[r] = "rows"
    /\ srows # <<>>
    /\ LET x == Head(srows)
       IN IF NotNullViolation("snfn", x)
          THEN /\ error_count' = error_count + 1
               /\ stxn' = {}
               /\ UNCHANGED <<success_count, inserted>>
          ELSE /\ stxn' = TbUpsert("snfn", stxn, {x})
               /\ success_count' = success_count + 1
               /\ inserted' = inserted \cup {x}
               /\ UNCHANGED error_count
    /\ srows' = Tail(srows)
    /\ UNCHANGED <<tblog, fixture, station, snfn, rjob, rpc, rrows, rlast,
                   rbefore, overlap>>
    /\ UNCHANGED nonTbVars

\* snfn: conn.commit() after the loop, then the print of the two counts
RSnfnCommit(r) ==
    /\ rpc[r] = "rows"
    /\ srows = <<>>
    /\ snfn' = TbUpsert("snfn", snfn, stxn)
    /\ stxn' = {}
    /\ success_count' = 0
    /\ error_count' = 0
    /\ inserted' = {}
    /\ RFinish(r, "ok")
    /\ UNCHANGED <<tblog, fixture, station, overlap, srows>>
    /\ UNCHANGED nonTbVars

TbOff ==
    /\ tblog = {}
    /\ fixture = {}
    /\ station = {}
    /\ snfn = {}
    /\ rjob = [r \in Runners |-> "none"]
    /\ rpc = [r \in Runners |-> "off"]
    /\ rrows = [r \in Runners |-> {}]
    /\ rlast = [r \in Runners |-> NoRun]
    /\ rbefore = [r \in Runners |-> {}]
    /\ overlap = FALSE
    /\ srows = <<>>
    /\ stxn = {}
    /\ success_count = 0
    /\ error_count = 0
    /\ inserted = {}

\* =====================================================================
\* YIELD AND PACKING CALCULATIONS: the SELECTs and the arithmetic of the
\* packing and throughput scripts, applied to given raw data
\* =====================================================================

\* the week the weekly script is run for: Monday to Sunday
CalcWeekStart == WeekStart(StartDay)

CalcWeekEnd == WeekEnd(StartDay)

\* raw rows of one week and of the Saturday before it
CalcPool ==
    {Event("a", "Tesla SXM4", "VI2", "Pass", "Production", CalcWeekStart, 1),
     Event("a", "Tesla SXM4", "ASSY2", "Pass", "Production", CalcWeekStart + 1, 1),
     Event("a", "Tesla SXM4", "FI", "Pass", "Production", CalcWeekStart + 2, 1),
     Event("a", "Tesla SXM4", "FQC", "Pass", "Production", CalcWeekStart + 3, 1),
     Event("a", "Tesla SXM4", "PACKING", "Pass", "Production", CalcWeekStart + 4, 1),
     Event("b", "Tesla SXM4", "FI", "Fail", "Production", CalcWeekStart + 4, 1),
     Event("b", "Tesla SXM4", "PACKING", "Pass", "Production", CalcWeekStart + 5, 1),
     Event("c", "Tesla SXM4", "FQC", "Fail", "Production", CalcWeekStart + 3, 1),
     Event("d", "Tesla SXM5", "BBD", "Pass", "Production", CalcWeekEnd, 1),
     Event("e", "Tesla SXM4", "PACKING", "Pass", "RO", CalcWeekEnd, 1),
     Event("f", "Tesla SXM4", "PACKING", "Pass", "Production", CalcWeekStart - 2, 1),
     Event("g", "Tesla SXM4", "SORTING", "Fail", "Production", CalcWeekStart + 2, 1)}

\* a week of ten serials: six packed without a failure (one of them an
\* SXM5 that passed its four stations), two packed after a failure, one
\* failed and not packed, one neither packed nor failed
ExampleWeek ==
    {Event(s, "Tesla SXM4", "PACKING", "Pass", "Production", CalcWeekStart, 1)
        : s \in {"p2", "p3", "p4", "p5", "p6", "q1", "q2"}}
    \cup {Event("p1", "Tesla SXM5", w, "Pass", "Production", CalcWeekStart + 1, 1)
        : w \in {"BBD", "ASSY2", "FI", "FQC", "PACKING"}}
    \cup {Event(s, "Tesla SXM4", "FI", "Fail", "Production", CalcWeekStart, 0)
        : s \in {"q1", "q2"}}
    \cup {Event("f1", "Tesla SXM4", "FQC", "Fail", "Production", CalcWeekStart + 2, 1),
          Event("l1", "Tesla SXM4", "VI2", "Pass", "Production", CalcWeekStart + 2, 1)}

\* one station on one day with 37 events, 33 of them passed
ExampleStation ==
    {Event(ToString(i), "Tesla SXM4", "FI", IF i <= 33 THEN "Pass" ELSE "Fail",
           "Production", CalcWeekStart + 2, 1) : i \in 1..37}

\* WHERE history_station_end_time >= week_start
\*   AND history_station_end_time < week_end + 1 day
\*   AND service_flow NOT IN ('NC Sort', 'RO') AND service_flow IS NOT NULL
\*   AND workstation_name != 'SORTING'
WeeklyQualifying(E, ws, we) ==
    {e \in Qualifying(E) : e.day >= ws /\ e.day < we + 1 /\ e.ws # "SORTING"}

MutPartAnalysisPerRow(E, ws, we) ==
    {[sn |-> e.sn, model |-> e.model, ws |-> e.ws, day |-> e.day,
      reached_packing |-> IF e.ws = "PACKING" THEN 1 ELSE 0,
      failure_count |-> IF e.status # "Pass" THEN 1 ELSE 0]
        : e \in WeeklyQualifying(E, ws, we)}

\* the CTE part_analysis: GROUP BY sn, model
PartAnalysis(E, ws, we) ==
    LET Q == WeeklyQualifying(E, ws, we)
    IN {[sn |-> k[1], model |-> k[2],
         reached_packing |->
             Cardinality({e \in Q : e.sn = k[1] /\ e.model = k[2] /\ e.ws = "PACKING"}),
         failure_count |->
             Cardinality({e \in Q : e.sn = k[1] /\ e.model = k[2] /\ e.status # "Pass"})]
        : k \in {<<e.sn, e.model>> : e \in Q}}

NoFpy ==
    [partsStarted |-> 0, firstPassSuccess |-> 0, traditional |-> 0,
     activeParts |-> 0, completedOnly |-> 0,
     partsCompleted |-> 0, partsFailed |-> 0, partsStuckInLimbo |-> 0]

\* calculate_weekly_first_pass_yield_from_raw; the yields in hundredths
\* of a percent
WeeklyFpy(E, ws, we) ==
    LET PA == PartAnalysis(E, ws, we)
        parts_started == Cardinality(PA)
        first_pass_success ==
            Cardinality({p \in PA : p.reached_packing > 0 /\ p.failure_count = 0})
        parts_completed == Cardinality({p \in PA : p.reached_packing > 0})
        parts_failed == Cardinality({p \in PA : p.failure_count > 0})
        parts_stuck ==
            Cardinality({p \in PA : p.reached_packing = 0 /\ p.failure_count = 0})
        active_parts == parts_completed + parts_failed
    IN IF parts_started > 0
       THEN [partsStarted |-> parts_started,
             firstPassSuccess |-> first_pass_success,
             traditional |->
                 YieldPct(first_pass_success, parts_started),
             activeParts |-> active_parts,
             completedOnly |->
                 IF active_parts > 0 THEN YieldPct(first_pass_success, active_parts)
                                     ELSE 0,
             partsCompleted |-> parts_completed,
             partsFailed |-> parts_failed,
             partsStuckInLimbo |-> parts_stuck]
       ELSE NoFpy

\* AND (model IN ('Tesla SXM4', 'Tesla SXM5') OR model = 'SXM6')
WeeklyModels == {"Tesla SXM4", "Tesla SXM5", "SXM6"}

\* calculate_model_specific_throughput_yields: the entries
\* model_specific_yields[model][station]
ModelYields(E, ws, we) ==
    LET Q == {e \in WeeklyQualifying(E, ws, we) : e.model \in WeeklyModels}
        G(k) == {e \in Q : e.model = k[1] /\ e.ws = k[2]}
    IN {[model |-> k[1], ws |-> k[2],
         totalParts |-> Cardinality(G(k)),
         passedParts |-> Cardinality({e \in G(k) : e.status = "Pass"}),
         failedParts |-> Cardinality({e \in G(k) : e.status # "Pass"}),
         throughputYield |->
             YieldPct(Cardinality({e \in G(k) : e.status = "Pass"}), Cardinality(G(k)))]
        : k \in {<<e.model, e.ws>> : e \in Q}}

\* the model families of calculate_hardcoded_tpy and their stations
Families == {"SXM4", "SXM5", "SXM6"}

HardcodedStations(f) ==
    IF f = "SXM4" THEN <<"VI2", "ASSY2", "FI", "FQC">>
                  ELSE <<"BBD", "ASSY2", "FI", "FQC">>

\* model_key = f"Tesla {model_name}" if model_name == "SXM5" else model_name;
\* the SXM4 block reads model_yields["Tesla SXM4"]
ModelKey(f) == IF f = "SXM6" THEN "SXM6" ELSE "Tesla " \o f

\* tpy_value = 1.0; for val in values: tpy_value *= val;
\* round(tpy_value * 100, 2), for at most four values val = yield_pct / 100.0.
\* In hundredths of a percent: the product of the yields, themselves in
\* hundredths of a percent, over 10^12, rounded (a tie to even); computed
\* in pieces of four decimal digits.
RoundedProduct(ys) ==
    LET v(i) == IF i <= Len(ys) THEN ys[i] ELSE 10000
        a == v(1) * v(2)
        b == v(3) * v(4)
        a1 == a \div 10000
        a0 == a % 10000
        b1 == b \div 10000
        b0 == b % 10000
        lo == a0 * b0
        mid == a1 * b0 + a0 * b1 + (lo \div 10000)
        hi == a1 * b1 + (mid \div 10000)
        q == hi \div 10000
        r == hi % 10000
        rest == (mid % 10000) + (lo % 10000)
    IN IF r > 5000 \/ (r = 5000 /\ rest > 0) THEN q + 1
       ELSE IF r = 5000 THEN q + (q % 2)
       ELSE q

\* a sequence without the entries that fail the test
RECURSIVE SelectPresent(_, _)
SelectPresent(stations, present) ==
    IF stations = <<>> THEN <<>>
    ELSE (IF Head(stations) \in present THEN <<Head(stations)>> ELSE <<>>)
         \o SelectPresent(Tail(stations), present)

MutEnoughStations(n) == n >= 1

\* if len(values) == 4
EnoughStations(n) == n = 4

\* "tpy": None; a tpy that was computed is <<value>>
None == <<>>

\* calculate_hardcoded_tpy for one family: the stations found in
\* model_yields and the tpy, None unless all four were found
HardcodedTpy(Y, f) ==
    LET Mine == {y \in Y : y.model = ModelKey(f)}
        found == SelectPresent(HardcodedStations(f), {y.ws : y \in Mine})
        values == [i \in 1..Len(found) |->
                      (CHOOSE y \in Mine : y.ws = found[i]).throughputYield]
    IN [stations |-> {<<found[i], values[i]>> : i \in 1..Len(found)},
        tpy |-> IF EnoughStations(Len(values)) THEN <<RoundedProduct(values)>> ELSE None]

\* the dates the daily script is applied to
CalcDates == {CalcWeekStart + 2, CalcWeekStart + 3}

NoHard == [f \in Families |-> [stations |-> {}, tpy |-> None]]

NoPacked == [all_time |-> {}, recent |-> {}]

\* the SELECT of AGGREGATE_SQL of the two packing scripts is evaluated
CalcPacking ==
    /\ wpc = "packing"
    /\ wpacked' = [all_time |-> PackingSelect(events),
                   recent |-> PackingRecentSelect(events, today)]
    /\ wpc' = "daily"
    /\ UNCHANGED <<wdate, wdaily, wfpy, wyields, whard>>
    /\ UNCHANGED nonCalcVars

\* aggregate_daily_tpy_for_date: the rows it inserts for the date
CalcDaily ==
    /\ wpc = "daily"
    /\ wdaily' = TpyRows(events, wdate)
    /\ wpc' = "fpy"
    /\ UNCHANGED <<wdate, wpacked, wfpy, wyields, whard>>
    /\ UNCHANGED nonCalcVars

\* aggregate_weekly_tpy_for_week: weekly_first_pass_yield = ...
CalcWeeklyFpy ==
    /\ wpc = "fpy"
    /\ wfpy' = WeeklyFpy(events, CalcWeekStart, CalcWeekEnd)
    /\ wpc' = "yields"
    /\ UNCHANGED <<wdate, wpacked, wdaily, wyields, whard>>
    /\ UNCHANGED nonCalcVars

\* aggregate_weekly_tpy_for_week: model_specific_yields = ...
CalcYields ==
    /\ wpc = "yields"
    /\ wyields' = ModelYields(events, CalcWeekStart, CalcWeekEnd)
    /\ wpc' = "hardcoded"
    /\ UNCHANGED <<wdate, wpacked, wdaily, wfpy, whard>>
    /\ UNCHANGED nonCalcVars

\* aggregate_weekly_tpy_for_week: hardcoded_tpy = ...
CalcHardcoded ==
    /\ wpc = "hardcoded"
    /\ whard' = [f \in Families |-> HardcodedTpy(wyields, f)]
    /\ wpc' = "done"
    /\ UNCHANGED <<wdate, wpacked, wdaily, wfpy, wyields>>
    /\ UNCHANGED nonCalcVars

CalcOff ==
    /\ wpc = "off"
    /\ wdate = 0
    /\ wpacked = NoPacked
    /\ wdaily = {}
    /\ wfpy = NoFpy
    /\ wyields = {}
    /\ whard = NoHard

\* =====================================================================
\* WEEK IDENTIFIERS AND THE WEEKLY THROUGHPUT JOB
\* (aggregators/throughput/aggregate_tpy_all_time_weekly.py)
\* =====================================================================

\* A date is the number of its day, day 1 being Monday 2024-01-01 (the
\* proleptic ordinal of datetime minus that of 2023-12-31), so that
\* StartDay is Sunday 2024-01-14.

\* the years the dates and the week ids of the model can name
Years == 2023..2028

\* datetime: the number of the last day of year y - 1
DaysBeforeYear(y) ==
    365 * (y - 1) + ((y - 1) \div 4) - ((y - 1) \div 100) + ((y - 1) \div 400) - 738885

\* date.year
YearOf(d) == CHOOSE y \in Years : DaysBeforeYear(y) < d /\ d <= DaysBeforeYear(y + 1)

\* date.weekday(): Monday is 0, Sunday is 6
weekday(d) == (d + 6) % 7

\* datetime: the Monday of ISO week 1 of year y, the week with its Thursday
IsoWeek1Monday(y) ==
    LET firstday == DaysBeforeYear(y) + 1
        firstweekday == (firstday + 6) % 7
        week1monday == firstday - firstweekday
    IN IF firstweekday > 3 THEN week1monday + 7 ELSE week1monday

\* date.isocalendar(): ISO year and ISO week number
isocalendar(d) ==
    LET y == YearOf(d)
        week == (d - IsoWeek1Monday(y)) \div 7
    IN IF week < 0
       THEN [year |-> y - 1, week |-> ((d - IsoWeek1Monday(y - 1)) \div 7) + 1]
       ELSE IF week >= 52 /\ d >= IsoWeek1Monday(y + 1)
            THEN [year |-> y + 1, week |-> 1]
            ELSE [year |-> y, week |-> week + 1]

\* A string is the sequence of its characters.
Digit(n) == <<"0", "1", "2", "3", "4", "5", "6", "7", "8", "9">>[n + 1]

\* str(n) of a number that is not negative
RECURSIVE Str(_)
Str(n) == IF n < 10 THEN <<Digit(n)>> ELSE Str(n \div 10) \o <<Digit(n % 10)>>

\* the format {n:02d}
Pad2(n) == IF n < 10 THEN <<"0">> \o Str(n) ELSE Str(n)

\* int(s) of a string of digits
RECURSIVE ParseInt(_)
ParseInt(s) ==
    IF s = <<>> THEN 0
    ELSE 10 * ParseInt(SubSeq(s, 1, Len(s) - 1))
         + (CHOOSE n \in 0..9 : Digit(n) = s[Len(s)])

\* get_week_bounds: the Monday and the Sunday of the week of the date
get_week_bounds(target_date) ==
    LET days_since_monday == weekday(target_date)
        week_start == target_date - days_since_monday
        week_end == week_start + 6
    IN <<week_start, week_end>>

MutWeekIdCalendarYear(target_date) ==
    Str(YearOf(target_date)) \o <<"-", "W">> \o Pad2(isocalendar(target_date).week)

\* get_week_id: f"{year}-W{week_num:02d}"
get_week_id(target_date) ==
    LET c == isocalendar(target_date)
    IN Str(c.year) \o <<"-", "W">> \o Pad2(c.week)

\* get_week_date_range: year, week = week_id.split('-W'); the Monday of the
\* week of 4 January plus week - 1 weeks, and the Sunday after it
get_week_date_range(week_id) ==
    LET i == CHOOSE k \in 1..(Len(week_id) - 1) :
                 /\ week_id[k] = "-" /\ week_id[k + 1] = "W"
                 /\ \A j \in 1..(k - 1) : ~(week_id[j] = "-" /\ week_id[j + 1] = "W")
        year == ParseInt(SubSeq(week_id, 1, i - 1))
        week == ParseInt(SubSeq(week_id, i + 2, Len(week_id)))
        jan4 == DaysBeforeYear(year) + 4
        week_start == jan4 - weekday(jan4) + 7 * (week - 1)
        week_end == week_start + 6
    IN <<week_start, week_end>>

\* the code point of a character of a week id
Code(c) ==
    IF c = "-" THEN 45
    ELSE IF c = "W" THEN 87
    ELSE 48 + (CHOOSE n \in 0..9 : Digit(n) = c)

\* s < t for strings
RECURSIVE StrLess(_, _)
StrLess(s, t) ==
    IF t = <<>> THEN FALSE
    ELSE IF s = <<>> THEN TRUE
    ELSE IF Head(s) = Head(t) THEN StrLess(Tail(s), Tail(t))
    ELSE Code(Head(s)) < Code(Head(t))

\* sorted(list(weeks))
RECURSIVE SortedWeeks(_)
SortedWeeks(S) ==
    IF S = {} THEN <<>>
    ELSE LET m == CHOOSE x \in S : \A y \in S \ {x} : StrLess(x, y)
         IN <<m>> \o SortedWeeks(S \ {m})

\* get_all_available_weeks: the week ids of the dates with a qualifying
\* event outside SORTING
get_all_available_weeks(E) ==
    SortedWeeks({get_week_id(e.day) : e \in {x \in Qualifying(E) : x.ws # "SORTING"}})

\* a product of yields as a number in base 10000, lowest digit first
RECURSIVE MulLimbs(_, _, _)
MulLimbs(L, y, carry) ==
    IF L = <<>> THEN (IF carry = 0 THEN <<>> ELSE <<carry>>)
    ELSE LET p == Head(L) * y + carry
         IN <<p % 10000>> \o MulLimbs(Tail(L), y, p \div 10000)

RECURSIVE ProductLimbs(_)
ProductLimbs(ys) ==
    IF ys = <<>> THEN <<1>> ELSE MulLimbs(ProductLimbs(Tail(ys)), Head(ys), 0)

\* tpy_value = 1.0; for yield_pct in ...: tpy_value *= (yield_pct / 100.0);
\* round(tpy_value * 100, 2), for any number of yields: in hundredths of a
\* percent, the product of the n yields over 10000^(n-1), rounded (a tie
\* to even)
DynamicProduct(ys) ==
    LET n == Len(ys)
        P == ProductLimbs(ys)
        limb(i) == IF i >= 1 /\ i <= Len(P) THEN P[i] ELSE 0
        q == limb(n) + 10000 * limb(n + 1)
        r == limb(n - 1)
        rest == \E i \in 1..(n - 2) : limb(i) # 0
    IN IF r > 5000 \/ (r = 5000 /\ rest) THEN q + 1
       ELSE IF r = 5000 THEN q + (q % 2)
       ELSE q

\* model_mappings of calculate_dynamic_tpy
ModelFull(f) == IF f = "SXM6" THEN "SXM6" ELSE "Tesla " \o f

\* the values of a dict in some order
RECURSIVE Values(_)
Values(S) ==
    IF S = {} THEN <<>>
    ELSE LET x == CHOOSE y \in S : TRUE IN <<x[2]>> \o Values(S \ {x})

\* calculate_dynamic_tpy for one family: every observed station of the
\* model with its yield, their number, and the product over all of them
DynamicTpy(Y, f) ==
    LET Mine == {y \in Y : y.model = ModelFull(f)}
        stations == {<<y.ws, y.throughputYield>> : y \in Mine}
    IN [stations |-> stations,
        stationCount |-> Cardinality(stations),
        tpy |-> IF stations # {} THEN <<DynamicProduct(Values(stations))>> ELSE None]

\* model_specific_yields["overall"]: per station, the counts of all models
OverallYields(Y) ==
    LET Sum(S, field) ==
            LET RECURSIVE Add(_)
                Add(T) == IF T = {} THEN 0
                          ELSE LET y == CHOOSE z \in T : TRUE
                               IN y[field] + Add(T \ {y})
            IN Add(S)
    IN {[ws |-> w,
         totalParts |-> Sum({y \in Y : y.ws = w}, "totalParts"),
         passedParts |-> Sum({y \in Y : y.ws = w}, "passedParts"),
         failedParts |-> Sum({y \in Y : y.ws = w}, "failedParts"),
         throughputYield |-> YieldPct(Sum({y \in Y : y.ws = w}, "passedParts"),
                                      Sum({y \in Y : y.ws = w}, "totalParts"))]
        : w \in {y.ws : y \in Y}}

\* SELECT SUM(total_parts), SUM(passed_parts) FROM daily_tpy_metrics
\* WHERE date_id >= week_start AND date_id <= week_end
DailySums(T, week_start, week_end) ==
    LET RECURSIVE Add(_, _)
        Add(S, field) == IF S = {} THEN 0
                         ELSE LET r == CHOOSE z \in S : TRUE
                              IN r[field] + Add(S \ {r}, field)
        W == {r \in T : r.date >= week_start /\ r.date <= week_end}
    IN [total |-> Add(W, "total"), passed |-> Add(W, "passed")]

\* the values of the INSERT INTO weekly_tpy_metrics of one week; the best
\* and the worst station by their yields
WeeklyRow(E, T, week_id) ==
    LET range == get_week_date_range(week_id)
        Y == ModelYields(E, range[1], range[2])
        O == OverallYields(Y)
        D == DailySums(T, range[1], range[2])
    IN [week_id |-> week_id, week_start |-> range[1], week_end |-> range[2],
        fpy |-> WeeklyFpy(E, range[1], range[2]),
        total_parts |-> D.total,
        completed_parts |-> D.passed,
        overall_yield |-> YieldPct(D.passed, D.total),
        station_metrics |-> O,
        total_stations |-> Cardinality(O),
        best_station_yield |->
            IF O = {} THEN None
            ELSE <<CHOOSE v \in {o.throughputYield : o \in O} :
                       \A o \in O : o.throughputYield <= v>>,
        worst_station_yield |->
            IF O = {} THEN None
            ELSE <<CHOOSE v \in {o.throughputYield : o \in O} :
                       \A o \in O : o.throughputYield >= v>>]

\* for model_name, model_data in hardcoded_tpy.items():
\*     if model_data["stations"]: INSERT INTO weekly_tpy_model_metrics ...
ModelRows(E, week_id) ==
    LET range == get_week_date_range(week_id)
        Y == ModelYields(E, range[1], range[2])
    IN {[week_id |-> week_id,
         model |-> IF f # "SXM6" THEN "Tesla " \o f ELSE "SXM6",
         hardcoded_stations |-> HardcodedTpy(Y, f).stations,
         hardcoded_tpy |-> HardcodedTpy(Y, f).tpy,
         dynamic_stations |-> DynamicTpy(Y, f).stations,
         dynamic_tpy |-> DynamicTpy(Y, f).tpy,
         dynamic_station_count |-> DynamicTpy(Y, f).stationCount]
        : f \in {g \in Families : HardcodedTpy(Y, g).stations # {}}}

\* ON CONFLICT (week_id) DO UPDATE SET ...
WeeklyUpsert(T, row) == {x \in T : x.week_id # row.week_id} \cup {row}

\* ON CONFLICT (week_id, model) DO UPDATE SET ...
ModelUpsert(T, R) ==
    {x \in T : ~\E r \in R : r.week_id = x.week_id /\ r.model = x.model} \cup R

NoWeek == [week_id |-> <<>>, failed |-> FALSE]

\* the raw rows of the throughput jobs: two weeks, a model seen at
\* PACKING only, a model seen at one and at two of its four stations, a
\* SORTING row
TpyPool ==
    {Event("a", "Tesla SXM4", "PACKING", "Pass", "Production", StartDay - 8, 1),
     Event("d", "Tesla SXM4", "VI2", "Pass", "Production", StartDay - 8, 1),
     Event("b", "Tesla SXM5", "BBD", "Pass", "Production", StartDay - 5, 1),
     Event("b", "Tesla SXM5", "FI", "Fail", "Production", StartDay - 4, 1),
     Event("c", "SXM6", "PACKING", "Pass", "Production", StartDay - 4, 1),
     Event("g", "Tesla SXM4", "SORTING", "Fail", "Production", StartDay - 8, 1)}

\* aggregate_weekly_tpy_metrics_all_time: all_weeks = get_all_available_weeks();
\* run_cycle starts the script when the daily script has returned with
\* status 0
WeeklyStart ==
    /\ kpc = "idle"
    /\ ajob = "idle"
    /\ prev = [job |-> "tpy_daily", ok |-> TRUE]
    /\ all_weeks' = get_all_available_weeks(events)
    /\ kpc' = IF all_weeks' = <<>> THEN "done" ELSE "weeks"
    /\ UNCHANGED <<weekly, wmodel, klast, cpc, cdate, cid, crange, cbounds>>
    /\ UNCHANGED nonWeekVars

\* one pass of the loop: aggregate_weekly_tpy_for_week(week_id) computes the
\* week, executes the INSERTs and commits once at its end; an exception
\* at any statement leaves the connection to be closed without a commit
\* and is caught by the loop
WeeklyWeek ==
    /\ kpc = "weeks"
    /\ \E err \in BOOLEAN :
         LET week_id == Head(all_weeks)
         IN /\ IF err
               THEN UNCHANGED <<weekly, wmodel>>
               ELSE /\ weekly' = WeeklyUpsert(weekly, WeeklyRow(events, tpy, week_id))
                    /\ wmodel' = ModelUpsert(wmodel, ModelRows(events, week_id))
            /\ klast' = [week_id |-> week_id, failed |-> err]
    /\ all_weeks' = Tail(all_weeks)
    /\ kpc' = IF Tail(all_weeks) = <<>> THEN "done" ELSE "weeks"
    /\ UNCHANGED <<cpc, cdate, cid, crange, cbounds>>
    /\ UNCHANGED nonWeekVars

\* get_week_id is applied to the date
WeekIdOfDate ==
    /\ cpc = "id"
    /\ cid' = get_week_id(cdate)
    /\ cpc' = "range"
    /\ UNCHANGED <<kpc, all_weeks, weekly, wmodel, klast, cdate, crange, cbounds>>
    /\ UNCHANGED nonWeekVars

\* get_week_date_range is applied to the week id
WeekRangeOfId ==
    /\ cpc = "range"
    /\ crange' = get_week_date_range(cid)
    /\ cpc' = "bounds"
    /\ UNCHANGED <<kpc, all_weeks, weekly, wmodel, klast, cdate, cid, cbounds>>
    /\ UNCHANGED nonWeekVars

\* get_week_bounds is applied to the date
WeekBoundsOfDate ==
    /\ cpc = "bounds"
    /\ cbounds' = get_week_bounds(cdate)
    /\ cpc' = "done"
    /\ UNCHANGED <<kpc, all_weeks, weekly, wmodel, klast, cdate, cid, crange>>
    /\ UNCHANGED nonWeekVars

NoRange == <<0, 0>>

WeekOff ==
    /\ kpc = "off"
    /\ all_weeks = <<>>
    /\ weekly = {}
    /\ wmodel = {}
    /\ klast = NoWeek
    /\ cpc = "off"
    /\ cdate = 0
    /\ cid = <<>>
    /\ crange = NoRange
    /\ cbounds = NoRange

\* =====================================================================
\* SPECIFICATIONS
\* =====================================================================

InitOrch ==
    /\ IngestOff
    /\ AggOff
    /\ TbOff
    /\ CalcOff
    /\ WeekOff
    /\ orch \in Orchestrators
    /\ opc = "loop"
    /\ ocat = 0
    /\ oidx = 0
    /\ started = <<>>
    /\ exits = <<>>
    /\ cycle_count = 1
    /\ prevAborted = FALSE
    /\ interrupted = FALSE

NextOrch ==
    \/ StartCycle
    \/ StartScript
    \/ ScriptReturns
    \/ BookkeepingError
    \/ SleepDone
    \/ ExceptSleepDone
    \/ KeyboardInterrupt

SpecOrch == InitOrch /\ [][NextOrch]_vars

\* The sleeps end and the loop body runs: time.sleep returns after wait_time
\* and nothing else blocks the single-threaded loop between two scripts.
FairSpecOrch ==
    /\ InitOrch
    /\ [][NextOrch]_vars
    /\ WF_vars(StartCycle)
    /\ WF_vars(SleepDone)
    /\ WF_vars(ExceptSleepDone)

InitIngest ==
    /\ OrchOff
    /\ AggOff
    /\ TbOff
    /\ CalcOff
    /\ WeekOff
    /\ raw = EmptyTables
    /\ xls = [t \in Range(FileTypes) |-> NoFile]
    /\ xlsx = [t \in Range(FileTypes) |-> NoFile]
    /\ mpc = "check"
    /\ mtype = 1
    /\ mapped = <<>>
    /\ new_records = <<>>
    /\ txn = EmptyBag
    /\ landings = 0
    /\ rawBefore = EmptyBag
    /\ lastImport = [type |-> "none", how |-> "none"]
    /\ lastResult = "none"
    /\ failedRows = 0

NextIngest ==
    \/ Land
    \/ CheckFile
    \/ Convert
    \/ RemoveXls
    \/ ImportRead
    \/ ImportCheck
    \/ ImportInsert
    \/ ImportCommit
    \/ ImportRemove
    \/ ImportError
    \/ ImportExit
    \/ ImportTimeout
    \/ Sleep


SpecIngest == InitIngest /\ [][NextIngest]_vars

InitAgg ==
    /\ OrchOff
    /\ IngestOff
    /\ TbOff
    /\ CalcOff
    /\ WeekOff
    /\ events = {}
    /\ today = StartDay
    /\ now = 0
    /\ pchart = {}
    /\ packing = {}
    /\ tpy = {}
    /\ ajob = "idle"
    /\ apc = "idle"
    /\ adates = <<>>
    /\ before = NoTables
    /\ prev = [job |-> "none", ok |-> FALSE]
    /\ prevQuiet = FALSE
    /\ quiet = FALSE

NextAgg ==
    \/ JobStart
    \/ PchartAllTimeRun
    \/ PchartRecentRun
    \/ PackingAllTimeRun
    \/ PackingRecentRun
    \/ TpyStart
    \/ TpyDate
    \/ RawInsert
    \/ Midnight

SpecAgg == InitAgg /\ [][NextAgg]_vars

\* the raw tables are filled before the two runners start and do not
\* change while they run
InitConc ==
    /\ OrchOff
    /\ IngestOff
    /\ events \in {{}, {e \in Pool : e.sn \in {"s1", "s4"}}}
    /\ today = StartDay
    /\ now = 0
    /\ pchart = {}
    /\ packing = {}
    /\ tpy = {}
    /\ ajob = "off"
    /\ apc = "idle"
    /\ adates = <<>>
    /\ before = NoTables
    /\ prev = [job |-> "none", ok |-> FALSE]
    /\ prevQuiet = FALSE
    /\ quiet = FALSE
    /\ CalcOff
    /\ WeekOff
    /\ tblog \in SUBSET TbPool
    /\ fixture = {}
    /\ station = {}
    /\ snfn = {}
    /\ rjob = [r \in Runners |-> "none"]
    /\ rpc = [r \in Runners |-> "idle"]
    /\ rrows = [r \in Runners |-> {}]
    /\ rlast = [r \in Runners |-> NoRun]
    /\ rbefore = [r \in Runners |-> {}]
    /\ overlap = FALSE
    /\ srows = <<>>
    /\ stxn = {}
    /\ success_count = 0
    /\ error_count = 0
    /\ inserted = {}

NextConc ==
    \/ \E r \in Runners : RStart(r)
    \/ \E r \in Runners : RCreate(r)
    \/ \E r \in Runners : RAggregate(r)
    \/ \E r \in Runners : RTruncate(r)
    \/ \E r \in Runners : RSelect(r)
    \/ \E r \in Runners : RInsert(r)
    \/ \E r \in Runners : RSnfnRow(r)
    \/ \E r \in Runners : RSnfnCommit(r)

SpecConc == InitConc /\ [][NextConc]_vars

\* the calculations start from any raw data of the pool or from one of
\* the two examples
InitCalc ==
    /\ OrchOff
    /\ IngestOff
    /\ TbOff
    /\ events \in (SUBSET CalcPool) \cup {ExampleWeek, ExampleStation}
    /\ today = StartDay
    /\ now = 0
    /\ pchart = {}
    /\ packing = {}
    /\ tpy = {}
    /\ ajob = "off"
    /\ apc = "idle"
    /\ adates = <<>>
    /\ before = NoTables
    /\ prev = [job |-> "none", ok |-> FALSE]
    /\ prevQuiet = FALSE
    /\ quiet = FALSE
    /\ wpc = "packing"
    /\ wdate \in CalcDates
    /\ wpacked = NoPacked
    /\ wdaily = {}
    /\ wfpy = NoFpy
    /\ wyields = {}
    /\ whard = NoHard
    /\ WeekOff

NextCalc ==
    \/ CalcPacking
    \/ CalcDaily
    \/ CalcWeeklyFpy
    \/ CalcYields
    \/ CalcHardcoded

SpecCalc == InitCalc /\ [][NextCalc]_vars

\* the throughput category of a cycle: the all-time daily script has been
\* started, the weekly script follows it
InitTpy ==
    /\ OrchOff
    /\ IngestOff
    /\ TbOff
    /\ CalcOff
    /\ events \in SUBSET TpyPool
    /\ today = StartDay
    /\ now = 1
    /\ pchart = {}
    /\ packing = {}
    /\ tpy = {}
    /\ ajob = "tpy_daily"
    /\ apc = "run"
    /\ adates = <<>>
    /\ before = NoTables
    /\ prev = [job |-> "none", ok |-> FALSE]
    /\ prevQuiet = FALSE
    /\ quiet = TRUE
    /\ kpc = "idle"
    /\ all_weeks = <<>>
    /\ weekly = {}
    /\ wmodel = {}
    /\ klast = NoWeek
    /\ cpc = "off"
    /\ cdate = 0
    /\ cid = <<>>
    /\ crange = NoRange
    /\ cbounds = NoRange

NextTpy ==
    \/ TpyStart
    \/ TpyDate
    \/ WeeklyStart
    \/ WeeklyWeek

SpecTpy == InitTpy /\ [][NextTpy]_vars

\* the week functions applied to every date of three years
InitWeekId ==
    /\ OrchOff
    /\ IngestOff
    /\ AggOff
    /\ TbOff
    /\ CalcOff
    /\ kpc = "off"
    /\ all_weeks = <<>>
    /\ weekly = {}
    /\ wmodel = {}
    /\ klast = NoWeek
    /\ cpc = "id"
    /\ cdate \in 1..MaxDay
    /\ cid = <<>>
    /\ crange = NoRange
    /\ cbounds = NoRange

NextWeekId ==
    \/ WeekIdOfDate
    \/ WeekRangeOfId
    \/ WeekBoundsOfDate

SpecWeekId == InitWeekId /\ [][NextWeekId]_vars

\* raw rows with a passing status that is neither 'Pass' nor 'Fail' (the
\* importers store str() of the cell, 'nan' for an empty one)
CountPool ==
    {Event("s1", "Tesla SXM4", "FI", "Pass", "Production", StartDay, 0),
     Event("s2", "Tesla SXM4", "FI", "nan", "Production", StartDay, 0),
     Event("s3", "Tesla SXM4", "FI", "Fail", "Production", StartDay - 1, 1)}

TbCountPool ==
    {TbEvent("t1", "F1", "TEST", "Pass", 2, <<>>),
     TbEvent("t2", "F1", "TEST", "Fail", 2, <<"E", "R", "0", "0", "1">>),
     TbEvent("t6", "F1", "TEST", "nan", 2, <<>>)}

\* the workstation jobs and the testboard scripts of the historical
\* orchestrator over raw tables that do not change
InitCounts ==
    /\ OrchOff
    /\ IngestOff
    /\ CalcOff
    /\ WeekOff
    /\ events \in {E \in SUBSET CountPool : \E e \in E : e.status = "Pass"}
    /\ today = StartDay
    /\ now = 0
    /\ pchart = {}
    /\ packing = {}
    /\ tpy = {}
    /\ ajob = "idle"
    /\ apc = "idle"
    /\ adates = <<>>
    /\ before = NoTables
    /\ prev = [job |-> "none", ok |-> FALSE]
    /\ prevQuiet = FALSE
    /\ quiet = FALSE
    /\ tblog \in {E \in SUBSET TbCountPool : \A e \in TbCountPool : e.status # "nan" => e \in E}
    /\ fixture = {}
    /\ station = {}
    /\ snfn = {}
    /\ rjob = [r \in Runners |-> "none"]
    /\ rpc = [r \in Runners |-> "idle"]
    /\ rrows = [r \in Runners |-> {}]
    /\ rlast = [r \in Runners |-> NoRun]
    /\ rbefore = [r \in Runners |-> {}]
    /\ overlap = FALSE
    /\ srows = <<>>
    /\ stxn = {}
    /\ success_count = 0
    /\ error_count = 0
    /\ inserted = {}

NextCounts ==
    \/ JobStart
    \/ PchartAllTimeRun
    \/ PchartRecentRun
    \/ PackingAllTimeRun
    \/ PackingRecentRun
    \/ TpyStart
    \/ TpyDate
    \/ \E r \in {"historical"} : RStart(r)
    \/ \E r \in {"historical"} : RCreate(r)
    \/ \E r \in {"historical"} : RAggregate(r)
    \/ \E r \in {"historical"} : RTruncate(r)
    \/ \E r \in {"historical"} : RSelect(r)
    \/ \E r \in {"historical"} : RInsert(r)
    \/ \E r \in {"historical"} : RSnfnRow(r)
    \/ \E r \in {"historical"} : RSnfnCommit(r)

SpecCounts == InitCounts /\ [][NextCounts]_vars

\* =====================================================================
\* CLAIMS ABOUT THE ORCHESTRATION LOOP
\* =====================================================================

\* C6: within one cycle, once a script exits with a non-zero status no later
\* script of that cycle is started, in the same or in a following category:
\* the failed script is the last one the cycle started.
C6_NoJobAfterFailure ==
    \A i \in 1..Len(exits) : exits[i] = "nonzero" => Len(started) = i

\* a cycle that was cut short in a category that is not the last one
C6_Witness ==
    /\ opc = "sleep"
    /\ Len(exits) >= 1
    /\ exits[Len(exits)] = "nonzero"
    /\ ocat < Len(Categories(orch))
    /\ oidx < Len(ScriptGroups(orch, Categories(orch)[ocat]))

\* C7: the loop is left only by an operator interrupt, and after every cycle
\* (completed, aborted, or ended by an exception) the orchestrator sleeps and
\* then starts another cycle unless it was interrupted.
C7_OrchestratorKeepsCycling ==
    /\ [][(opc # "stopped" /\ opc' = "stopped") => (~interrupted /\ interrupted')]_vars
    /\ [](opc = "stopped" => interrupted)
    /\ ((opc \in {"sleep", "except_sleep"}) ~> (opc \in {"cycle", "stopped"}))

\* a new cycle runs after an aborted one
C7_Witness ==
    /\ prevAborted
    /\ opc = "cycle"
    /\ cycle_count >= 2
    /\ started = <<>>

\* C8: a TPY script is started only after every testboard and workstation
\* script of the cycle has exited successfully, and the weekly TPY script
\* only after the daily one.
C8_ThroughputRunsLast ==
    \A i \in 1..Len(started) :
        started[i] \in TpyScripts =>
            /\ \A s \in NonTpyScripts(orch) :
                   \E j \in 1..(i - 1) : started[j] = s /\ exits[j] = "ok"
            /\ started[i] = TpyWeekly => \E j \in 1..(i - 1) : started[j] = TpyDaily

\* the weekly TPY script has been started
C8_Witness ==
    /\ Len(started) >= 1
    /\ started[Len(started)] = TpyWeekly

\* =====================================================================
\* CLAIMS ABOUT INGESTION
\* =====================================================================

\* C1: after any sequence of imports (the same file twice, overlapping
\* files) each raw table holds at most one row per natural key, NULL
\* counting as equal to NULL.
C1_AtMostOneRowPerKey ==
    \A t \in Range(FileTypes) : \A r \in Cand : raw[t][r] <= 1

\* C9: when the import of a detected export fails (the importer errors or
\* is timed out), the export is still in the input directory under the
\* name the monitor polls, so that a later poll imports it again.
C9_FailedImportLeftForRetry ==
    lastImport.how \in {"failed", "killed"} => xls[lastImport.type] # NoFile

\* C10: an import is all-or-nothing: an import that fails, is killed or
\* finds nothing new leaves its raw table as it was when the import
\* started, and an import that commits leaves every row of the file in the
\* table.
C10_ImportAllOrNothing ==
    /\ [](mpc = "imp_exit" =>
            \/ /\ lastImport.how \in {"failed", "nothing"}
               /\ raw[CurType] = rawBefore
            \/ /\ lastImport.how = "committed"
               /\ \A r \in Range(mapped) : raw[CurType][r] >= 1)
    /\ [][ImportTimeout => raw' = raw]_vars

C10_Witness ==
    /\ mpc = "imp_exit"
    /\ lastImport.how = "failed"
    /\ failedRows >= 1
    /\ raw[CurType] = rawBefore
    /\ Present(rawBefore) # {}

\* =====================================================================
\* CLAIMS ABOUT THE AGGREGATION JOBS
\* =====================================================================

\* C2: a job run twice in succession over unchanged raw data leaves the
\* derived tables, at the end of the second run, exactly as they were at
\* its start: no row added, none removed, no stored column value changed.
C2_RerunChangesNothing ==
    [][(/\ ajob # "idle"
        /\ ajob' = "idle"
        /\ prev = [job |-> ajob, ok |-> TRUE]
        /\ prev'.ok
        /\ prevQuiet
        /\ quiet)
       => <<pchart, packing, tpy>>' = before]_vars

\* C3: when a full-rebuild job finishes, its derived table holds exactly
\* the grouped summary of the raw table: one row per group with the
\* group's counts and no other row.
C3_FullRebuildEqualsSummary ==
    [][(ajob' = "idle" /\ prev'.ok) =>
          /\ ajob = "pchart_all_time" =>
                {Counts(r) : r \in pchart'} = PchartAllTimeSelect(events)
          /\ ajob = "packing_all_time" =>
                packing' = PackingSelect(events)]_vars

\* C4: after a recent job, every key whose date lies inside the trailing
\* window (today included) has the row the full rebuild computes from the
\* same raw data.
C4_RecentEqualsAllTimeInWindow ==
    [][(ajob' = "idle" /\ prev'.ok) =>
          /\ ajob = "pchart_recent" =>
                \A r \in PchartAllTimeSelect(events) :
                    (r.date >= today - 6 /\ r.date <= today)
                        => r \in {Counts(x) : x \in pchart'}
          /\ ajob = "packing_recent" =>
                \A r \in PackingSelect(events) :
                    (r.pack_date >= today - 7 /\ r.pack_date <= today)
                        => r \in packing']_vars

\* C5: each derived table holds at most one row per natural key; an upsert
\* never changes or removes the key of an existing row; after an upsert
\* run the rows of the keys it computed hold the values it computed.
C5_UpsertKeepsKeys ==
    /\ [](\A r1 \in pchart, r2 \in pchart :
              PchartKey([day |-> r1.date, model |-> r1.model, ws |-> r1.ws, sf |-> r1.sf])
                = PchartKey([day |-> r2.date, model |-> r2.model, ws |-> r2.ws, sf |-> r2.sf])
              => r1 = r2)
    /\ [](\A r1 \in tpy, r2 \in tpy : TpyKey(r1) = TpyKey(r2) => r1 = r2)
    /\ [][ajob = "pchart_recent" =>
              \A r \in pchart : \E x \in pchart' :
                  <<x.date, x.model, x.ws, x.sf>> = <<r.date, r.model, r.ws, r.sf>>]_vars
    /\ [][ajob = "tpy_daily" =>
              \A r \in tpy : \E x \in tpy' : TpyKey(x) = TpyKey(r)]_vars
    /\ [][(ajob = "pchart_recent" /\ ajob' = "idle" /\ prev'.ok) =>
              \A r \in PchartRecentSelect(events, today) :
                  r \in {Counts(x) : x \in pchart'}]_vars

\* =====================================================================
\* CLAIMS ABOUT EXIT STATUS AND FAILURE HANDLING
\* =====================================================================

\* C11: a job that hit an error and rolled its work back ends with a
\* non-zero status, so that process_file records the import as failed.
C11_RolledBackJobReportsFailure ==
    [][(ImportExit /\ lastImport.how = "failed") => lastResult' = "False"]_vars

\* =====================================================================
\* CLAIMS ABOUT THE WINDOWED JOBS
\* =====================================================================

\* C13: a recent job changes no derived-table row whose date lies outside
\* its trailing window: the row is neither deleted nor overwritten.
C13_RowsOutsideWindowUntouched ==
    [][/\ ajob = "pchart_recent" =>
             \A r \in pchart : (r.date < today - 6 \/ r.date > today) => r \in pchart'
       /\ ajob = "packing_recent" =>
             \A r \in packing : (r.pack_date < today - 7 \/ r.pack_date > today)
                                    => r \in packing']_vars

C13_Witness ==
    /\ prev = [job |-> "pchart_recent", ok |-> TRUE]
    /\ ajob = "idle"
    /\ \E r \in pchart : r.date < today - 6 /\ r.created_at < now
    /\ \E r \in pchart : r.date >= today - 6 /\ r.created_at = now

\* =====================================================================
\* CLAIMS ABOUT CONCURRENT RUNS
\* =====================================================================

\* C12: when two scripts that write the same derived table were run at the
\* same time by the two orchestrators over unchanged raw data, with no
\* database failure, then once both have finished the table holds the
\* rows of the full aggregation: no row missing and no stale row left.
C12_ConcurrentRunsConverge ==
    (/\ \A r \in Runners : rpc[r] = "idle" /\ rlast[r].how \notin {"none", "fault"}
     /\ overlap)
    => /\ (\A r \in Runners : rlast[r].job = "fixture")
             => fixture = FixtureSelect(tblog)
       /\ (\A r \in Runners : rlast[r].job \in {"packing_recent", "packing_all_time"})
             => packing = PackingSelect(events)

\* C19: a full-rebuild script that fails after it has started (in its
\* aggregation query or in its insert), with no other script running beside
\* it, leaves its derived table with the contents it had when the script
\* started: never empty or partially filled by the failed run.
C19_FailedRebuildRestoresTable ==
    [][\A r \in Runners :
          (/\ rjob[r] \in {"fixture", "station"}
           /\ rpc[r] \in {"select", "insert"}
           /\ rpc'[r] = "idle"
           /\ rlast'[r].how \in {"error", "fault"}
           /\ rpc[Other(r)] = "idle"
           /\ ~overlap)
          => /\ rjob[r] = "fixture" => fixture' = rbefore[r]
             /\ rjob[r] = "station" => station' = rbefore[r]]_vars

\* C20: when the historical snfn script commits, every row whose insert
\* succeeded is in snfn_aggregate_daily, whether it came before or after a
\* row that failed, and success_count is the number of rows the run stored.
C20_OnlyFailingRowSkipped ==
    [][\A r \in Runners :
          (/\ rjob[r] = "snfn"
           /\ rpc[r] = "rows"
           /\ rpc'[r] = "idle")
          => /\ inserted \subseteq snfn'
             /\ success_count = Cardinality(snfn')]_vars

\* =====================================================================
\* CLAIMS ABOUT THE PACKING AND YIELD CALCULATIONS
\* =====================================================================

C15_TraditionalFpy ==
    wpc \in {"yields", "hardcoded", "done"} =>
        LET Q == {e \in events : /\ e.day >= CalcWeekStart
                                 /\ e.day <= CalcWeekEnd
                                 /\ e.sf \notin {NULL, "NC Sort", "RO"}
                                 /\ e.ws # "SORTING"}
            S == {<<e.sn, e.model>> : e \in Q}
            Of(s) == {e \in Q : e.sn = s[1] /\ e.model = s[2]}
            FP == {s \in S : /\ \E e \in Of(s) : e.ws = "PACKING"
                             /\ \A e \in Of(s) : e.status = "Pass"}
            d == wfpy.traditional * Cardinality(S) - 10000 * Cardinality(FP)
        IN /\ wfpy.partsStarted = Cardinality(S)
           /\ wfpy.firstPassSuccess = Cardinality(FP)
           /\ 2 * (IF d < 0 THEN -d ELSE d) <= Cardinality(S)
           /\ events = ExampleWeek =>
                 /\ wfpy.partsStarted = 10
                 /\ wfpy.firstPassSuccess = 6
                 /\ wfpy.traditional = 6000

C15_Witness ==
    /\ wpc = "done"
    /\ events = ExampleWeek
    /\ wfpy.traditional = 6000

\* C16: the denominator of completed-only weekly first-pass yield is the
\* number of distinct serials that reached PACKING or had at least one
\* failure in the week, a serial that did both counting once: 6 packed
\* without failure, 2 packed after a failure and 1 failed without packing
\* give 6/9 = 66.67%.
C16_CompletedOnlyDenominator ==
    wpc \in {"yields", "hardcoded", "done"} =>
        LET Q == {e \in events : /\ e.day >= CalcWeekStart
                                 /\ e.day <= CalcWeekEnd
                                 /\ e.sf \notin {NULL, "NC Sort", "RO"}
                                 /\ e.ws # "SORTING"}
            S == {<<e.sn, e.model>> : e \in Q}
            Of(s) == {e \in Q : e.sn = s[1] /\ e.model = s[2]}
            Active == {s \in S : \/ \E e \in Of(s) : e.ws = "PACKING"
                                 \/ \E e \in Of(s) : e.status # "Pass"}
        IN /\ wfpy.activeParts = Cardinality(Active)
           /\ events = ExampleWeek => wfpy.completedOnly = 6667

\* C17: the hardcoded TPY of a model family is the product of the
\* throughput yields of its four stations (SXM4: VI2, ASSY2, FI, FQC; SXM5
\* and SXM6: BBD, ASSY2, FI, FQC) when all four have events in the week,
\* and null when at least one has none: never a product over fewer.
C17_HardcodedTpyNeedsFourStations ==
    wpc = "done" =>
        /\ \A f \in Families :
             LET key == CASE f = "SXM4" -> "Tesla SXM4"
                          [] f = "SXM5" -> "Tesla SXM5"
                          [] f = "SXM6" -> "SXM6"
                 first == IF f = "SXM4" THEN "VI2" ELSE "BBD"
                 Seen(s) == \E e \in events :
                               /\ e.model = key
                               /\ e.ws = s
                               /\ e.day >= CalcWeekStart
                               /\ e.day <= CalcWeekEnd
                               /\ e.sf \notin {NULL, "NC Sort", "RO"}
                 Y(s) == (CHOOSE y \in wyields : y.model = key /\ y.ws = s).throughputYield
             IN IF \A s \in {first, "ASSY2", "FI", "FQC"} : Seen(s)
                THEN whard[f].tpy =
                        <<RoundedProduct(<<Y(first), Y("ASSY2"), Y("FI"), Y("FQC")>>)>>
                ELSE whard[f].tpy = None
        /\ events = CalcPool => whard["SXM4"].tpy = <<2500>>
        /\ events = ExampleWeek => whard["SXM5"].tpy = <<10000>>

C17_Witness ==
    /\ wpc = "done"
    /\ whard["SXM4"].tpy = <<2500>>
    /\ whard["SXM5"].tpy = None
    /\ whard["SXM5"].stations # {}

\* C18: every (model, workstation) pair with at least one qualifying event
\* in the period has one entry, whose yield is passed / total * 100
\* rounded to 2 decimals and lies between 0 and 100 (33 of 37 gives 89.19);
\* a pair without qualifying events has no entry.
C18_ThroughputYieldRounded ==
    wpc = "done" =>
        LET W == {e \in events : /\ e.day >= CalcWeekStart
                                 /\ e.day <= CalcWeekEnd
                                 /\ e.sf \notin {NULL, "NC Sort", "RO"}
                                 /\ e.ws # "SORTING"
                                 /\ e.model \in {"Tesla SXM4", "Tesla SXM5", "SXM6"}}
            D == {e \in events : /\ e.day = wdate
                                 /\ e.sf \notin {NULL, "NC Sort", "RO"}
                                 /\ e.model \in {"Tesla SXM4", "Tesla SXM5"}}
            Rounded(y, p, t) ==
                LET d == y * t - 10000 * p
                IN /\ t > 0
                   /\ 2 * (IF d < 0 THEN -d ELSE d) <= t
                   /\ y >= 0
                   /\ y <= 10000
            Passed(G) == Cardinality({e \in G : e.status = "Pass"})
        IN /\ \A e \in W :
                 Cardinality({y \in wyields : y.model = e.model /\ y.ws = e.ws}) = 1
           /\ \A y \in wyields :
                 LET G == {e \in W : e.model = y.model /\ e.ws = y.ws}
                 IN Rounded(y.throughputYield, Passed(G), Cardinality(G))
           /\ \A e \in D :
                 Cardinality({r \in wdaily : r.model = e.model /\ r.ws = e.ws}) = 1
           /\ \A r \in wdaily :
                 LET G == {e \in D : e.model = r.model /\ e.ws = r.ws}
                 IN Rounded(r.yield, Passed(G), Cardinality(G))
           /\ events = ExampleStation =>
                 /\ \E y \in wyields : y.throughputYield = 8919
                 /\ wdate = CalcWeekStart + 2 => \E r \in wdaily : r.yield = 8919

C18_Witness ==
    /\ wpc = "done"
    /\ events = ExampleStation
    /\ wdate = CalcWeekStart + 2
    /\ \E y \in wyields : y.throughputYield = 8919
    /\ \E r \in wdaily : r.yield = 8919

\* =====================================================================
\* CLAIMS ABOUT THE P-CHART GROUPS AND THE TRAILING WINDOW
\* =====================================================================

\* C21: the pchart aggregation stores one row per distinct (date, pn,
\* model, workstation_name, service_flow) group: whatever groups the
\* SELECT of a pchart job yields, two groups that differ only in model
\* included, the job can complete successfully with every group stored
\* as its own row with its own counts.
C21_GroupsDifferingInModelStored ==
    ajob \in {"pchart_all_time", "pchart_recent"} =>
        ENABLED (/\ PchartAllTimeRun \/ PchartRecentRun
                 /\ prev'.ok
                 /\ \A r \in (IF ajob = "pchart_all_time"
                                THEN PchartAllTimeSelect(events)
                                ELSE PchartRecentSelect(events, today)) :
                        r \in {Counts(x) : x \in pchart'})

\* =====================================================================
\* CLAIMS ABOUT THE EXCLUSION FILTERS AND THE COUNTS
\* =====================================================================

\* C22: no throughput-yield or first-pass-yield figure counts an event
\* whose workstation is SORTING or whose service_flow is 'NC Sort', 'RO'
\* or null: the daily rows, the weekly per-station entries and the parts
\* of the weekly FPY count the other events only, and no daily row has
\* workstation_name = 'SORTING'.
C22_ExcludedEventsNotCounted ==
    LET Counted == {e \in events : /\ e.ws # "SORTING"
                                   /\ e.sf # NULL
                                   /\ e.sf \notin {"NC Sort", "RO"}}
        InWeek == {e \in Counted : e.day >= CalcWeekStart /\ e.day <= CalcWeekEnd}
    IN /\ \A r \in wdaily :
            /\ r.ws # "SORTING"
            /\ r.total = Cardinality({e \in Counted : /\ e.day = r.date
                                                    /\ e.model = r.model
                                                    /\ e.ws = r.ws})
       /\ \A y \in wyields :
            /\ y.ws # "SORTING"
            /\ y.totalParts = Cardinality({e \in InWeek : e.model = y.model /\ e.ws = y.ws})
       /\ wpc \in {"yields", "hardcoded", "done"} =>
            wfpy.partsStarted = Cardinality({<<e.sn, e.model>> : e \in InWeek})

\* C23: the trailing window of a recent job includes today: every
\* qualifying event whose end time lies on the current day, at 00:00 or
\* at any later time up to the run, is counted by a successful run, i.e.
\* the row of its group holds the count of all such events of the group.
C23_WindowIncludesToday ==
    [][(ajob = "pchart_recent" /\ ajob' = "idle" /\ prev'.ok) =>
          \A e \in Qualifying(events) :
              e.day = today =>
                  \E x \in pchart' :
                      /\ <<x.date, x.model, x.ws, x.sf>> = <<e.day, e.model, e.ws, e.sf>>
                      /\ x.total = Cardinality({g \in Qualifying(events) :
                                                   PchartKey(g) = PchartKey(e)})]_vars

\* =====================================================================
\* CLAIMS ABOUT THE FILE MONITOR
\* =====================================================================

\* C24: when the conversion (60 s) or the import subprocess (300 s) of a
\* file exceeds its timeout, process_file returns False and the monitor
\* does not take up that file again in the same poll iteration: it goes on
\* to the detection block of the next file type, or after the last type
\* to the sleep before the next poll, from which it polls again.
C24_TimeoutIsFailureWithoutRetry ==
    /\ [][(ImportTimeout \/ (Convert /\ mpc' # "remove_xls")) =>
             /\ lastResult' = "False"
             /\ IF mtype < Len(FileTypes)
                THEN mtype' = mtype + 1 /\ mpc' = "check"
                ELSE mtype' = mtype /\ mpc' = "sleep"]_vars
    /\ [](mpc = "sleep" => ENABLED Sleep)

C24_Witness ==
    /\ lastImport = [type |-> "workstation", how |-> "killed"]
    /\ lastResult = "False"
    /\ mtype = 2
    /\ mpc = "check"
    /\ xlsx["workstation"] # NoFile

\* C25: no landed data is lost: no step of the monitor or of an importer
\* (detect, convert, delete the original, import, delete the converted
\* file), after whatever failed and successful attempts and landings went
\* before, takes a row out of the input directory without the row being
\* committed in the raw table: every row held by the .xls or the .xlsx of
\* a file type before the step is held by one of them, or by the raw
\* table, after it.
C25_NoLandedRowLost ==
    [][~Land =>
          \A t \in Range(FileTypes) :
              \A r \in Range(xls[t]) \cup Range(xlsx[t]) :
                  \/ r \in Range(xls'[t]) \cup Range(xlsx'[t])
                  \/ raw'[t][r] >= 1]_vars

\* =====================================================================
\* CLAIMS ABOUT THE WEEKLY THROUGHPUT JOB
\* =====================================================================

\* C26: in the values of a weekly_tpy_metrics row the first-pass-yield
\* breakdown partitions the started parts: active parts plus parts stuck
\* in limbo equals parts started, so active parts never exceeds parts
\* started and completed-only FPY is never lower than traditional FPY.
C26_BreakdownPartitionsStarted ==
    wpc \in {"yields", "hardcoded", "done"} =>
        /\ wfpy.activeParts + wfpy.partsStuckInLimbo = wfpy.partsStarted
        /\ wfpy.activeParts <= wfpy.partsStarted
        /\ wfpy.completedOnly >= wfpy.traditional

\* C27: for every week processed successfully and every model among Tesla
\* SXM4, Tesla SXM5 and SXM6 with at least one observed station in that
\* week, weekly_tpy_model_metrics holds the row of the week and the model
\* with the model's dynamic TPY (the product of the throughput yields of
\* all its observed stations) and its station count, also when none of the
\* model's four hardcoded stations was observed.
C27_ModelRowForEveryObservedModel ==
    (klast.week_id # <<>> /\ ~klast.failed) =>
        LET range == get_week_date_range(klast.week_id)
            Y == ModelYields(events, range[1], range[2])
        IN \A m \in {y.model : y \in Y} :
               \E x \in wmodel :
                   /\ x.week_id = klast.week_id
                   /\ x.model = m
                   /\ x.dynamic_station_count = Cardinality({y \in Y : y.model = m})
                   /\ x.dynamic_stations =
                          {<<y.ws, y.throughputYield>> : y \in {z \in Y : z.model = m}}
                   /\ x.dynamic_tpy # None

C29_FailedDateOrWeekSkipped ==
    /\ [][TpyDate =>
             LET d == Head(adates)
             IN /\ adates' = Tail(adates)
                /\ (ajob' = "idle") <=> (Tail(adates) = <<>>)
                /\ \A r \in tpy : r.date # d => r \in tpy'
                /\ \/ tpy' = tpy
                   \/ {[date |-> r.date, model |-> r.model, ws |-> r.ws, total |-> r.total]
                          : r \in {x \in tpy' : x.date = d}}
                      = {[date |-> r.date, model |-> r.model, ws |-> r.ws, total |-> r.total]
                          : r \in TpyRows(events, d)}]_vars
    /\ [][WeeklyWeek =>
             LET w == Head(all_weeks)
             IN /\ all_weeks' = Tail(all_weeks)
                /\ (kpc' = "done") <=> (Tail(all_weeks) = <<>>)
                /\ klast'.week_id = w
                /\ \A x \in weekly : x.week_id # w => x \in weekly'
                /\ \A x \in wmodel : x.week_id # w => x \in wmodel'
                /\ klast'.failed => (weekly' = weekly /\ wmodel' = wmodel)
                /\ ~klast'.failed => \E x \in weekly' : x.week_id = w]_vars

C29_Witness ==
    /\ kpc = "done"
    /\ klast = [week_id |-> get_week_id(StartDay - 4), failed |-> FALSE]
    /\ \E e \in events : e.day = StartDay - 8
    /\ \A x \in weekly : x.week_id = klast.week_id
    /\ weekly # {}
    /\ wmodel # {}
    /\ \E e \in events : e.day = StartDay - 5 /\ e.model \in TpyModels
    /\ ~\E r \in tpy : r.date = StartDay - 5
    /\ \E r \in tpy : r.date = StartDay - 8
    /\ \E r \in tpy : r.date = StartDay - 4

\* =====================================================================
\* CLAIMS ABOUT THE WEEK IDENTIFIERS
\* =====================================================================

\* C30: week identifiers round-trip: for every date d,
\* get_week_date_range(get_week_id(d)) is a Monday-to-Sunday range that
\* contains d and equals get_week_bounds(d), also around a year boundary;
\* hence the dates of one week id are exactly the dates of its range, and
\* the range of the week after begins the day after the range ends.
C30_WeekIdRoundTrip ==
    cpc = "done" =>
        /\ crange = cbounds
        /\ weekday(crange[1]) = 0
        /\ crange[2] = crange[1] + 6
        /\ crange[1] <= cdate /\ cdate <= crange[2]
        /\ \A e \in crange[1]..crange[2] : get_week_id(e) = cid
        /\ get_week_id(crange[1] - 1) # cid
        /\ get_week_id(crange[2] + 1) # cid
        /\ get_week_date_range(get_week_id(crange[2] + 1))[1] = crange[2] + 1

C30_Witness ==
    /\ cpc = "done"
    /\ YearOf(cdate) = 2024
    /\ cid = <<"2", "0", "2", "5", "-", "W", "0", "1">>
    /\ crange = cbounds
    /\ YearOf(crange[2]) = 2025

====
